---------------------------- MODULE Spec2Model ----------------------------
(***************************************************************************)
(* A model of the plan-to-schedule emulation engine of signal_emulator:    *)
(*   - the stage-sequence builders of plan.py (Plan.get_stage_sequence),  *)
(*   - the phase-timing emulator and the interstage corrector of           *)
(*     signal_plan.py (SignalPlanStream.emulate / reduce_interstage),      *)
(*   - the batch drivers of emulator.py (generate_signal_plans,            *)
(*     generate_phase_timings).                                            *)
(* Python's None is modelled by NoneT (times, stage numbers) and a raised  *)
(* exception by the control state "raised".                                *)
(***************************************************************************)
EXTENDS Integers, Sequences, FiniteSets, TLC

VARIABLES
    \* ---- registry: controller geometry (read-only after load) ----
    phases_in_stage,        \* stage_number -> sequence of phase refs (Stage.phases_in_stage)
    stream_stage_number,    \* stage_number -> position of the stage within its stream
    phase_attrs,            \* phase ref -> [termination_type, associated_phase, indicative_arrow_phase, min_time]
    intergreens,            \* <<end_phase, start_phase>> -> original intergreen time
    phase_delays,           \* <<end_stage, start_stage, phase>> -> original delay time
    m37,                    \* stage_number -> [total_time, interstage_time] or NoM37 (field statistics)
    \* ---- registry: overlays and process-wide settings ----
    modified_intergreens,   \* <<period, end_phase, start_phase>> -> modified intergreen time
    modified_phase_delays,  \* <<period, end_stage, start_stage, phase>> -> modified delay time
    active_period_id,       \* TimePeriods.active_period_id
    active_stage_key,       \* Stream.active_stage_key: KeyUnset, NoneT (key with stage None) or a stage number
    \* ---- stage-sequence builder (plan.py) ----
    plan,                   \* [cycle_time, items]: the Plan and its PlanSequenceItems in key order
    bargs,                  \* arguments of get_stage_sequence: [mode, stream_cycle_time, cycle_time_factor, single_double_triple, is_pv_px_mode]
    stage_sequence,         \* the DefaultList being built
    stages_used,            \* stage numbers used in-cycle (junction mode)
    item_index,             \* number of plan items already consumed by the builder loop
    bpc,                    \* builder control state
    returned,               \* the value returned by the builder: [kind, items]
    \* ---- emulator (signal_plan.py) ----
    signal_plan,            \* [cycle_time, time_period_id, stream_cycle_time, single_double_triple, stages]
    phase_timings,          \* phase ref -> the phase's list of PhaseTiming records
    registry,               \* PhaseTimings collection: <<phase, index, period>> -> position in the phase's list
    pc,                     \* emulator control state
    index,                  \* loop index of the pass over signal_plan_stages + [signal_plan_stages[0]]
    ppos,                   \* number of end/start phases of the current transition already processed
    \* ---- batch drivers (emulator.py) ----
    unit,                   \* ordinal of the controller/time-period unit being processed
    collection,             \* the PhaseTimings collection of the signal plans emulated before this
                            \* one, then of all of them: key -> record with its second interval
    \* ---- a single call of a function of the library ----
    fn,                     \* the function called ("none" when the batches run)
    args,                   \* its arguments
    result,                 \* the values returned so far, in call order
    \* ---- two controllers (the variables above hold the one whose step runs) ----
    controller_key,         \* the key of the controller whose state the variables above hold
    suspended,              \* the state of the other controller, or NoController
    reference,              \* controller key -> what emulating the controllers one after the other gave
    mode,                   \* "single", or with two controllers "sequential", then "interleaved"
    \* ---- SignalPlans.add_from_stream_plan_dict (signal_plan.py) ----
    created                 \* the SignalPlanStages made from the returned stage sequence

geoVars  == <<phases_in_stage, stream_stage_number, phase_attrs, intergreens, phase_delays, m37>>
ovVars   == <<modified_intergreens, modified_phase_delays>>
buildVars == <<plan, bargs, stage_sequence, stages_used, item_index, bpc, returned>>
emuVars  == <<signal_plan, phase_timings, registry, pc, index, ppos>>
fnVars == <<fn, args, result>>
postVars == <<collection>>
twoVars == <<controller_key, suspended, reference, mode>>
addVars == <<created>>
auxVars == <<fnVars, postVars, twoVars, addVars>>
vars == <<geoVars, ovVars, active_period_id, active_stage_key, buildVars, emuVars, unit, auxVars>>

---------------------------------------------------------------------------
\* Bounds of the model
MaxSeq    == 4      \* longest list of signal plan stages emulated
MaxItems  == 3      \* most plan sequence items in a plan of distinct bits
MaxUnits  == 2      \* controller/time-period units in a batch

\* Python's None where an integer may stand (a time, a stage number)
NoneT     == -1
\* Stream.active_stage_key never assigned (the key itself is None)
KeyUnset  == -2
NoM37     == [total_time |-> NoneT, interstage_time |-> NoneT]

PhaseRefs == {"A", "B"}
\* the time periods, in the order the batch drivers go through them
PeriodIds == <<"AM", "OP", "PM", "EV">>
PeriodOf(u) == PeriodIds[((u - 1) % Len(PeriodIds)) + 1]

Range(s) == {s[i] : i \in DOMAIN s}
Max2(a, b) == IF a >= b THEN a ELSE b

\* Python's round(): round half to even, of the rational num/den (den > 0, num >= 0)
\* rounding towards zero, as int() alone would do
RoundDown(num, den) == num \div den

RoundHalfEven(num, den) ==
    LET q == num \div den
        r == num % den
    IN  IF 2 * r < den THEN q
        ELSE IF 2 * r > den THEN q + 1
        ELSE IF q % 2 = 0 THEN q ELSE q + 1

\* The remainder of C and of most hardware: truncated division, the sign follows the dividend
truncated_remainder(time, cycle_time) ==
    IF time >= 0 THEN time % cycle_time ELSE 0 - ((0 - time) % cycle_time)

\* SignalPlanStream.constrain_time_to_cycle_time: Python's %, the sign follows the divisor
constrain_time_to_cycle_time(time, cycle_time) == time % cycle_time

\* Plan.constrain_time_to_cycle_time
Plan_constrain_time_to_cycle_time(time, cycle_time) == time % cycle_time

\* the stage length without the reduction to the cycle
stage_length_unreduced(pulse_point_1, pulse_point_2, cycle_time) ==
    pulse_point_2 - pulse_point_1 + cycle_time

\* SignalPlans.get_stage_length_from_pulse_points
get_stage_length_from_pulse_points(pulse_point_1, pulse_point_2, cycle_time) ==
    (pulse_point_2 - pulse_point_1 + cycle_time) % cycle_time

---------------------------------------------------------------------------
\* Registry look-ups

\* Stages.get_end_phases: the phases of end_stage that are not in start_stage, in stage order
get_end_phases(end_stage, start_stage) ==
    SelectSeq(phases_in_stage[end_stage], LAMBDA p : p \notin Range(phases_in_stage[start_stage]))

\* Stages.get_start_phases: the phases of start_stage that are not in end_stage, in stage order
get_start_phases(end_stage, start_stage) ==
    SelectSeq(phases_in_stage[start_stage], LAMBDA p : p \notin Range(phases_in_stage[end_stage]))

\* PhaseDelays.get_delay_time_by_stage_and_phase_keys over explicit overlay tables
delay_time_in(md, end_stage_key, start_stage_key, phase_key, modified) ==
    IF modified /\ <<active_period_id, end_stage_key, start_stage_key, phase_key>> \in DOMAIN md
    THEN md[<<active_period_id, end_stage_key, start_stage_key, phase_key>>]
    ELSE phase_delays[<<end_stage_key, start_stage_key, phase_key>>]

\* Intergreens.get_intergreen_time_by_phase_keys over explicit overlay tables
intergreen_time_in(mi, end_phase_key, start_phase_key, modified) ==
    IF modified /\ <<active_period_id, end_phase_key, start_phase_key>> \in DOMAIN mi
    THEN mi[<<active_period_id, end_phase_key, start_phase_key>>]
    ELSE intergreens[<<end_phase_key, start_phase_key>>]

get_delay_time_by_stage_and_phase_keys(end_stage_key, start_stage_key, phase_key, modified) ==
    delay_time_in(modified_phase_delays, end_stage_key, start_stage_key, phase_key, modified)

get_intergreen_time_by_phase_keys(end_phase_key, start_phase_key, modified) ==
    intergreen_time_in(modified_intergreens, end_phase_key, start_phase_key, modified)

\* add_item on an overlay table: the entry under the key is (re)written
add_item(table, key, value) ==
    [k \in (DOMAIN table) \cup {key} |-> IF k = key THEN value ELSE table[k]]

---------------------------------------------------------------------------
\* Interstage time (SignalPlanStream.get_max_start_time / get_interstage_time)

RECURSIVE max_start_time_from(_, _, _, _, _, _, _, _, _)
max_start_time_from(mi, md, end_phases, start_phase, end_stage_key, start_stage_key, modified, i, time_delta) ==
    IF i > Len(end_phases) THEN time_delta
    ELSE LET end_phase == end_phases[i]
             end_phase_delay == delay_time_in(md, end_stage_key, start_stage_key, end_phase, modified)
             intergreen == intergreen_time_in(mi, end_phase, start_phase, modified)
             start_phase_delay == delay_time_in(md, end_stage_key, start_stage_key, start_phase, modified)
         IN  max_start_time_from(mi, md, end_phases, start_phase, end_stage_key, start_stage_key, modified,
                                 i + 1, Max2(time_delta, Max2(end_phase_delay + intergreen, start_phase_delay)))

max_start_time_in(mi, md, end_phases, start_phase, end_stage_key, start_stage_key, modified) ==
    max_start_time_from(mi, md, end_phases, start_phase, end_stage_key, start_stage_key, modified, 1, 0)

\* the start phase's own delay alone
get_max_start_time_own_delay(end_phases, start_phase, end_stage_key, start_stage_key, modified) ==
    get_delay_time_by_stage_and_phase_keys(end_stage_key, start_stage_key, start_phase, modified)

get_max_start_time(end_phases, start_phase, end_stage_key, start_stage_key, modified) ==
    max_start_time_in(modified_intergreens, modified_phase_delays,
                      end_phases, start_phase, end_stage_key, start_stage_key, modified)

RECURSIVE interstage_time_from(_, _, _, _, _, _, _)
interstage_time_from(mi, md, end_stage, start_stage, modified, j, max_interstage_time) ==
    LET start_phases == get_start_phases(end_stage, start_stage)
    IN  IF j > Len(start_phases) THEN max_interstage_time
        ELSE interstage_time_from(mi, md, end_stage, start_stage, modified, j + 1,
                 Max2(max_interstage_time,
                      max_start_time_in(mi, md, get_end_phases(end_stage, start_stage), start_phases[j],
                                        end_stage, start_stage, modified)))

interstage_time_in(mi, md, end_stage, start_stage, modified) ==
    interstage_time_from(mi, md, end_stage, start_stage, modified, 1, 0)

get_interstage_time(end_stage, start_stage, modified) ==
    interstage_time_in(modified_intergreens, modified_phase_delays, end_stage, start_stage, modified)

---------------------------------------------------------------------------
\* Interstage time of the plan builder (Plan.get_max_start_time / get_interstage_time),
\* which reads the registry's own overlay tables

RECURSIVE Plan_max_start_time_from(_, _, _, _, _, _, _)
Plan_max_start_time_from(end_phases, start_phase, end_stage_key, start_stage_key, modified, i, time_delta) ==
    IF i > Len(end_phases) THEN time_delta
    ELSE LET end_phase == end_phases[i]
             end_phase_delay == get_delay_time_by_stage_and_phase_keys(end_stage_key, start_stage_key,
                                                                       end_phase, modified)
             intergreen == get_intergreen_time_by_phase_keys(end_phase, start_phase, modified)
             start_phase_delay == get_delay_time_by_stage_and_phase_keys(end_stage_key, start_stage_key,
                                                                         start_phase, modified)
         IN  Plan_max_start_time_from(end_phases, start_phase, end_stage_key, start_stage_key, modified,
                                      i + 1, Max2(time_delta, Max2(end_phase_delay + intergreen, start_phase_delay)))

Plan_get_max_start_time(end_phases, start_phase, end_stage_key, start_stage_key, modified) ==
    Plan_max_start_time_from(end_phases, start_phase, end_stage_key, start_stage_key, modified, 1, 0)

RECURSIVE Plan_interstage_time_from(_, _, _, _, _)
Plan_interstage_time_from(end_stage, start_stage, modified, j, max_interstage_time) ==
    LET end_phases == get_end_phases(end_stage, start_stage)
        start_phases == get_start_phases(end_stage, start_stage)
    IN  IF j > Len(start_phases) THEN max_interstage_time
        ELSE LET interstage_time == Plan_get_max_start_time(end_phases, start_phases[j],
                                                            end_stage, start_stage, modified)
             IN  Plan_interstage_time_from(end_stage, start_stage, modified, j + 1,
                                           Max2(max_interstage_time, interstage_time))

\* the interstage time taken from the first starting phase alone
Plan_get_interstage_time_first_phase(end_stage, start_stage, modified) ==
    LET end_phases == get_end_phases(end_stage, start_stage)
        start_phases == get_start_phases(end_stage, start_stage)
    IN  IF start_phases = << >> THEN 0
        ELSE Plan_get_max_start_time(end_phases, start_phases[1], end_stage, start_stage, modified)

Plan_get_interstage_time(end_stage, start_stage, modified) ==
    Plan_interstage_time_from(end_stage, start_stage, modified, 1, 0)

---------------------------------------------------------------------------
\* Interstage corrector (SignalPlanStream.reduce_interstage)

\* (a variant that sets the starting phase's delay to the interstage time, whatever it was)
reduce_pair_unconditional(ov, end_stage_key, start_stage_key, end_phase, start_phase, interstage_time) ==
    [mi |-> ov.mi,
     md |-> add_item(ov.md, <<active_period_id, end_stage_key, start_stage_key, start_phase>>, interstage_time)]

\* One iteration of the inner loop, for the pair (end_phase, start_phase): the six reads,
\* then the conditional overlay writes. ov = [mi, md] are the overlay tables so far.
reduce_pair(ov, end_stage_key, start_stage_key, end_phase, start_phase, interstage_time) ==
    LET end_phase_delay == delay_time_in(ov.md, end_stage_key, start_stage_key, end_phase, FALSE)
        intergreen == intergreen_time_in(ov.mi, end_phase, start_phase, FALSE)
        end_phase_delay_mod == delay_time_in(ov.md, end_stage_key, start_stage_key, end_phase, TRUE)
        intergreen_mod == intergreen_time_in(ov.mi, end_phase, start_phase, TRUE)
        start_phase_delay_mod == delay_time_in(ov.md, end_stage_key, start_stage_key, start_phase, TRUE)
        exceeds == end_phase_delay + intergreen > interstage_time
        old_interstage_time == end_phase_delay + intergreen
        new_end_phase_delay_time ==
            IF exceeds THEN RoundHalfEven(end_phase_delay * interstage_time, old_interstage_time) ELSE 0
        new_intergreen_time == interstage_time - new_end_phase_delay_time
        mi1 == IF exceeds /\ new_intergreen_time < intergreen_mod
               THEN add_item(ov.mi, <<active_period_id, end_phase, start_phase>>, new_intergreen_time)
               ELSE ov.mi
        md1 == IF exceeds /\ new_end_phase_delay_time < end_phase_delay_mod
               THEN add_item(ov.md, <<active_period_id, end_stage_key, start_stage_key, end_phase>>,
                             new_end_phase_delay_time)
               ELSE ov.md
        md2 == IF start_phase_delay_mod > interstage_time
               THEN add_item(md1, <<active_period_id, end_stage_key, start_stage_key, start_phase>>,
                             interstage_time)
               ELSE md1
    IN  [mi |-> mi1, md |-> md2]

\* for start_phase in start_phases: for end_phase in end_phases: ...  (j, i: 1-based positions)
RECURSIVE reduce_pairs_from(_, _, _, _, _, _)
reduce_pairs_from(ov, end_stage_key, start_stage_key, interstage_time, j, i) ==
    LET end_phases == get_end_phases(end_stage_key, start_stage_key)
        start_phases == get_start_phases(end_stage_key, start_stage_key)
    IN  IF j > Len(start_phases) THEN ov
        ELSE IF i > Len(end_phases)
        THEN reduce_pairs_from(ov, end_stage_key, start_stage_key, interstage_time, j + 1, 1)
        ELSE reduce_pairs_from(
                 reduce_pair(ov, end_stage_key, start_stage_key, end_phases[i], start_phases[j], interstage_time),
                 end_stage_key, start_stage_key, interstage_time, j, i + 1)

\* The overlay tables after reduce_interstage and whether its final assertion holds
reduce_interstage(end_stage_key, start_stage_key, interstage_time) ==
    LET ov == reduce_pairs_from([mi |-> modified_intergreens, md |-> modified_phase_delays],
                                end_stage_key, start_stage_key, interstage_time, 1, 1)
        reduced_interstage == interstage_time_in(ov.mi, ov.md, end_stage_key, start_stage_key, TRUE)
    IN  [mi |-> ov.mi, md |-> ov.md, reduced_interstage |-> reduced_interstage,
         assert_ok |-> (interstage_time = reduced_interstage)]

---------------------------------------------------------------------------
\* PhaseTiming records. tm = [pt, reg]: the phases' lists and the PhaseTimings collection.

NoPhase == ""

\* PhaseTiming(...) followed by phase_timings.add_instance: the record joins the
\* phase's list and is stored in the collection under its key
new_phase_timing(tm, phase_ref, idx, start_time, end_time, period) ==
    [pt  |-> [tm.pt EXCEPT ![phase_ref] =
                 Append(@, [index |-> idx, start_time |-> start_time, end_time |-> end_time])],
     reg |-> add_item(tm.reg, <<phase_ref, idx, period>>, Len(tm.pt[phase_ref]) + 1)]

\* One PhaseTiming (start_time, end_time) for every phase of the set, with index
\* len(phase.phase_timings) when by_len and index 0 otherwise
RECURSIVE new_phase_timings(_, _, _, _, _, _)
new_phase_timings(tm, phase_set, by_len, start_time, end_time, period) ==
    IF phase_set = {} THEN tm
    ELSE LET p == CHOOSE x \in phase_set : TRUE
         IN  new_phase_timings(
                 new_phase_timing(tm, p, IF by_len THEN Len(tm.pt[p]) ELSE 0, start_time, end_time, period),
                 phase_set \ {p}, by_len, start_time, end_time, period)

\* Stream.phases_in_stream: every phase of the model belongs to the stream
phases_in_stream == PhaseRefs

---------------------------------------------------------------------------
\* SignalPlanStream.emulate

signal_plan_stages == signal_plan.stages
NStages == Len(signal_plan_stages)

\* the entry of signal_plan_stages + [signal_plan_stages[0]] at (0-based) index
stage_at(idx) == IF idx < NStages THEN signal_plan_stages[idx + 1] ELSE signal_plan_stages[1]

all_phases_used == UNION {Range(phases_in_stage[signal_plan_stages[i].stage_number]) : i \in 1 .. NStages}

\* lines 325-345: the active period and the cursor are set; a single-stage plan
\* gets a full-cycle timing for every phase of its stage
EmulateBegin ==
    /\ pc = "start"
    /\ active_period_id' = signal_plan.time_period_id
    /\ active_stage_key' = signal_plan_stages[NStages].stage_number
    /\ LET tm == IF NStages = 1
                 THEN new_phase_timings([pt |-> phase_timings, reg |-> registry],
                          Range(phases_in_stage[signal_plan_stages[NStages].stage_number]),
                          TRUE, 0, signal_plan.cycle_time, signal_plan.time_period_id)
                 ELSE [pt |-> phase_timings, reg |-> registry]
       IN  /\ phase_timings' = tm.pt
           /\ registry' = tm.reg
    /\ pc' = "reduce"
    /\ index' = 0
    /\ UNCHANGED auxVars
    /\ UNCHANGED <<geoVars, ovVars, buildVars, signal_plan, ppos, unit>>

\* lines 348-366: one iteration of the interstage-reduction pass
ReduceStep ==
    /\ pc = "reduce"
    /\ index <= NStages
    /\ LET signal_plan_stage == stage_at(index)
           current_stage == active_stage_key
           controller_interstage_time == get_interstage_time(current_stage, signal_plan_stage.stage_number, TRUE)
           r == reduce_interstage(current_stage, signal_plan_stage.stage_number,
                                  signal_plan_stage.interstage_length)
       IN  IF controller_interstage_time > signal_plan_stage.interstage_length
           THEN /\ modified_intergreens' = r.mi
                /\ modified_phase_delays' = r.md
                /\ IF r.assert_ok
                   THEN /\ active_stage_key' = signal_plan_stage.stage_number
                        /\ index' = index + 1
                        /\ pc' = pc
                   ELSE /\ pc' = "raised"
                        /\ UNCHANGED <<active_stage_key, index>>
           ELSE /\ active_stage_key' = signal_plan_stage.stage_number
                /\ index' = index + 1
                /\ UNCHANGED <<ovVars, pc>>
    /\ UNCHANGED auxVars
    /\ UNCHANGED <<geoVars, active_period_id, buildVars, signal_plan, phase_timings, registry, ppos, unit>>

\* line 368: the cursor is put back on the last stage for the timing pass
\* the reduction loop has begun: at least one transition has been examined
reduction_pass_begun(idx) == idx >= 1

\* the reduction loop has examined every transition of the cycle
reduction_pass_done(idx) == idx = NStages + 1

TimingBegin ==
    /\ pc = "reduce"
    /\ reduction_pass_done(index)
    /\ active_stage_key' = signal_plan_stages[NStages].stage_number
    /\ pc' = "timing_end"
    /\ index' = 0
    /\ ppos' = 0
    /\ UNCHANGED auxVars
    /\ UNCHANGED <<geoVars, ovVars, active_period_id, buildVars, signal_plan, phase_timings, registry, unit>>

\* line 374, `if not index == 0`: the end phases are passed over on the first iteration
end_phases_skipped(idx) == idx = 0

\* (a variant that passes over the start phases of no iteration)
start_phases_never_skipped(idx) == FALSE

\* line 436, `if not index == len(self.signal_plan_stages)`: the start phases are passed
\* over on the final, wraparound iteration
start_phases_skipped(idx) == idx = NStages

cur_end_phases == get_end_phases(active_stage_key, stage_at(index).stage_number)
cur_start_phases == get_start_phases(active_stage_key, stage_at(index).stage_number)

\* lines 376-398: the end time of an end phase of the current transition, or NoneT
end_time_of(end_phase) ==
    LET signal_plan_stage == stage_at(index)
        a == phase_attrs[end_phase]
    IN  IF a.associated_phase # NoPhase /\ a.termination_type = "ASSOCIATED_PHASE_GAINS_ROW"
        THEN constrain_time_to_cycle_time(
                 signal_plan_stage.pulse_point
                 + get_max_start_time(cur_end_phases, a.associated_phase, active_stage_key,
                                      signal_plan_stage.stage_number, TRUE),
                 signal_plan.cycle_time)
        ELSE IF a.termination_type = "END_OF_STAGE"
        THEN constrain_time_to_cycle_time(
                 signal_plan_stage.pulse_point
                 + get_delay_time_by_stage_and_phase_keys(active_stage_key, signal_plan_stage.stage_number,
                                                          end_phase, TRUE),
                 signal_plan.cycle_time)
        ELSE NoneT

\* lines 399-415: an END_OF_STAGE end phase closes, or opens closed, the timing of its indicative arrow
arrow_update(tm, end_phase, end_time) ==
    LET a == phase_attrs[end_phase]
        arrow == a.indicative_arrow_phase
    IN  IF a.associated_phase # NoPhase /\ a.termination_type = "ASSOCIATED_PHASE_GAINS_ROW" THEN tm
        ELSE IF a.termination_type # "END_OF_STAGE" \/ arrow = NoPhase THEN tm
        ELSE IF Len(tm.pt[arrow]) > 0
        THEN IF tm.pt[arrow][Len(tm.pt[arrow])].end_time = NoneT
             THEN [tm EXCEPT !.pt[arrow][Len(tm.pt[arrow])].end_time = end_time]
             ELSE tm
        ELSE IF arrow \in all_phases_used
        THEN new_phase_timing(tm, arrow, Len(tm.pt[arrow]), NoneT, end_time, signal_plan.time_period_id)
        ELSE tm

\* lines 416-435: the end time goes into the last timing when that one is open, else into a new one
end_time_update(tm, end_phase, end_time) ==
    LET n == Len(tm.pt[end_phase])
    IN  IF end_time = NoneT THEN tm
        ELSE IF n > 0 /\ tm.pt[end_phase][n].end_time = NoneT
        THEN [tm EXCEPT !.pt[end_phase][n].end_time = end_time]
        ELSE new_phase_timing(tm, end_phase, n, NoneT, end_time, signal_plan.time_period_id)

\* lines 375-435 for one end phase (skipped on the first iteration)
TimingEndPhase ==
    /\ pc = "timing_end"
    /\ ~end_phases_skipped(index)
    /\ ppos < Len(cur_end_phases)
    /\ LET end_phase == cur_end_phases[ppos + 1]
           end_time == end_time_of(end_phase)
           tm == end_time_update(arrow_update([pt |-> phase_timings, reg |-> registry], end_phase, end_time),
                                 end_phase, end_time)
       IN  /\ phase_timings' = tm.pt
           /\ registry' = tm.reg
    /\ ppos' = ppos + 1
    /\ UNCHANGED auxVars
    /\ UNCHANGED <<geoVars, ovVars, active_period_id, active_stage_key, buildVars, signal_plan, pc, index, unit>>

\* the loop over the end phases is over (or skipped, line 374)
TimingEndDone ==
    /\ pc = "timing_end"
    /\ end_phases_skipped(index) \/ ppos = Len(cur_end_phases)
    /\ pc' = "timing_start"
    /\ ppos' = 0
    /\ UNCHANGED auxVars
    /\ UNCHANGED <<geoVars, ovVars, active_period_id, active_stage_key, buildVars, signal_plan,
                   phase_timings, registry, index, unit>>

\* lines 447-465: the start time goes into the last timing when that one has none, else into a new one
start_time_update(tm, start_phase, start_time) ==
    LET n == Len(tm.pt[start_phase])
    IN  IF n > 0 /\ tm.pt[start_phase][n].start_time = NoneT
        THEN [tm EXCEPT !.pt[start_phase][n].start_time = start_time]
        ELSE new_phase_timing(tm, start_phase, n, start_time, NoneT, signal_plan.time_period_id)

\* lines 437-465 for one start phase (skipped on the final wraparound iteration)
TimingStartPhase ==
    /\ pc = "timing_start"
    /\ ~start_phases_skipped(index)
    /\ ppos < Len(cur_start_phases)
    /\ LET start_phase == cur_start_phases[ppos + 1]
           signal_plan_stage == stage_at(index)
           max_start_time_delta == get_max_start_time(cur_end_phases, start_phase, active_stage_key,
                                                      signal_plan_stage.stage_number, TRUE)
           start_time == constrain_time_to_cycle_time(signal_plan_stage.pulse_point + max_start_time_delta,
                                                      signal_plan.cycle_time)
           tm == start_time_update([pt |-> phase_timings, reg |-> registry], start_phase, start_time)
       IN  /\ phase_timings' = tm.pt
           /\ registry' = tm.reg
    /\ ppos' = ppos + 1
    /\ UNCHANGED auxVars
    /\ UNCHANGED <<geoVars, ovVars, active_period_id, active_stage_key, buildVars, signal_plan, pc, index, unit>>

\* line 467: the cursor moves to the stage of this iteration and the loop goes on or ends
TimingAdvance ==
    /\ pc = "timing_start"
    /\ start_phases_skipped(index) \/ ppos = Len(cur_start_phases)
    /\ active_stage_key' = stage_at(index).stage_number
    /\ index' = index + 1
    /\ ppos' = 0
    /\ pc' = IF index = NStages THEN "always_on" ELSE "timing_end"
    /\ UNCHANGED auxVars
    /\ UNCHANGED <<geoVars, ovVars, active_period_id, buildVars, signal_plan, phase_timings, registry, unit>>

\* (a variant that finds no phase in every stage)
phases_in_all_stages_none == {}

phases_in_all_stages ==
    {p \in all_phases_used : \A i \in 1 .. NStages : p \in Range(phases_in_stage[signal_plan_stages[i].stage_number])}

unused_phases == phases_in_stream \ all_phases_used

\* lines 469-485: a phase that is in every stage gets a timing over the whole cycle
AlwaysOn ==
    /\ pc = "always_on"
    /\ LET tm == new_phase_timings([pt |-> phase_timings, reg |-> registry], phases_in_all_stages,
                                   FALSE, 0, signal_plan.cycle_time, signal_plan.time_period_id)
       IN  /\ phase_timings' = tm.pt
           /\ registry' = tm.reg
    /\ pc' = "always_off"
    /\ UNCHANGED auxVars
    /\ UNCHANGED <<geoVars, ovVars, active_period_id, active_stage_key, buildVars, signal_plan, index, ppos, unit>>

\* lines 487-503: a phase of the stream that is in no stage gets a zero-length timing
AlwaysOff ==
    /\ pc = "always_off"
    /\ LET tm == new_phase_timings([pt |-> phase_timings, reg |-> registry], unused_phases,
                                   FALSE, 0, 0, signal_plan.time_period_id)
       IN  /\ phase_timings' = tm.pt
           /\ registry' = tm.reg
    /\ pc' = "done"
    /\ UNCHANGED auxVars
    /\ UNCHANGED <<geoVars, ovVars, active_period_id, active_stage_key, buildVars, signal_plan, index, ppos, unit>>

Emulate ==
    \/ EmulateBegin \/ ReduceStep \/ TimingBegin
    \/ TimingEndPhase \/ TimingEndDone \/ TimingStartPhase \/ TimingAdvance
    \/ AlwaysOn \/ AlwaysOff

---------------------------------------------------------------------------
\* Controllers and signal plans emulated

Phase(termination_type, associated_phase, indicative_arrow_phase) ==
    [termination_type |-> termination_type, associated_phase |-> associated_phase,
     indicative_arrow_phase |-> indicative_arrow_phase, min_time |-> 6]

\* the phases A and B of the controller, in the combinations of termination type,
\* associated phase and indicative arrow phase the emulator distinguishes
PhaseProfiles ==
    { [p \in PhaseRefs |-> Phase("END_OF_STAGE", NoPhase, NoPhase)],
      [p \in PhaseRefs |-> IF p = "A" THEN Phase("OTHER", NoPhase, NoPhase)
                           ELSE Phase("END_OF_STAGE", NoPhase, NoPhase)],
      [p \in PhaseRefs |-> IF p = "A" THEN Phase("ASSOCIATED_PHASE_GAINS_ROW", "B", NoPhase)
                           ELSE Phase("END_OF_STAGE", NoPhase, NoPhase)],
      [p \in PhaseRefs |-> IF p = "A" THEN Phase("ASSOCIATED_PHASE_GAINS_ROW", NoPhase, NoPhase)
                           ELSE Phase("END_OF_STAGE", NoPhase, NoPhase)],
      [p \in PhaseRefs |-> IF p = "A" THEN Phase("END_OF_STAGE", NoPhase, "B")
                           ELSE Phase("END_OF_STAGE", NoPhase, NoPhase)],
      [p \in PhaseRefs |-> IF p = "B" THEN Phase("END_OF_STAGE", NoPhase, "A")
                           ELSE Phase("END_OF_STAGE", NoPhase, NoPhase)] }

PhaseLists == { <<>>, <<"A">>, <<"B">>, <<"A", "B">> }

SignalPlanStage(stage_number, pulse_point, interstage_length) ==
    [stage_number |-> stage_number, pulse_point |-> pulse_point, interstage_length |-> interstage_length]

SignalPlan(cycle_time, stages) ==
    [cycle_time |-> cycle_time, time_period_id |-> PeriodOf(1), stream_cycle_time |-> cycle_time,
     single_double_triple |-> 1, stages |-> stages]

\* n stages with any phases, run in the order 1..n (or 1..n/2 twice when doubled), with
\* interstage budgets that the controller's interstage times never exceed
TimingController(n, doubled, lists, attrs) ==
    LET m == IF doubled THEN n \div 2 ELSE n
    IN  [phases_in_stage |-> lists,
         phase_attrs |-> attrs,
         intergreens |-> [k \in PhaseRefs \X PhaseRefs |-> 5],
         phase_delays |-> [k \in (1 .. m) \X (1 .. m) \X PhaseRefs |-> IF k[3] = "A" THEN 2 ELSE 0],
         signal_plan |-> SignalPlan(60,
             [i \in 1 .. n |-> SignalPlanStage(((i - 1) % m) + 1, 10 * (i - 1), 99)])]

\* stages that follow one another in the sequence hold different phases, or all
\* stages hold the same phases
Changing(lists) ==
    \/ \A i \in DOMAIN lists : i > 1 => lists[i] # lists[i - 1]
    \/ \A i \in DOMAIN lists : lists[i] = lists[1]

TimingControllers ==
    UNION { { TimingController(n, FALSE, lists, attrs) :
                  lists \in {l \in [1 .. n -> PhaseLists] : Changing(l)}, attrs \in PhaseProfiles } :
              n \in 1 .. MaxSeq }
    \cup
    UNION { { TimingController(n, TRUE, lists, attrs) :
                  lists \in {l \in [1 .. (n \div 2) -> PhaseLists] : Changing(l)}, attrs \in PhaseProfiles } :
              n \in {k \in 4 .. MaxSeq : k % 2 = 0} }

\* n stages holding phase A and phase B in turn, with an end-phase delay per transition
\* and an interstage budget per stage that the intergreen of 8 may exceed
ReduceController(n, end_delay, start_delay, budget) ==
    [phases_in_stage |-> [i \in 1 .. n |-> IF i % 2 = 1 THEN <<"A">> ELSE <<"B">>],
     phase_attrs |-> [p \in PhaseRefs |-> Phase("END_OF_STAGE", NoPhase, NoPhase)],
     intergreens |-> [k \in PhaseRefs \X PhaseRefs |-> 8],
     phase_delays |-> [k \in (1 .. n) \X (1 .. n) \X PhaseRefs |->
                          IF (k[3] = "A") = (k[1] % 2 = 1) THEN end_delay[k[1]] ELSE start_delay],
     signal_plan |-> SignalPlan(60,
         [i \in 1 .. n |-> SignalPlanStage(i, 10 * (i - 1), budget[i])])]

ReduceControllers ==
    UNION { { ReduceController(n, end_delay, start_delay, budget) :
                  end_delay \in [1 .. n -> {0, 10}], start_delay \in {0, 20},
                  budget \in [1 .. n -> {3, 12}] } : n \in 2 .. MaxSeq }

\* two stages run three times a cycle: phase A is green three times
RepeatControllers ==
    { TimingController(6, FALSE, [i \in 1 .. 6 |-> IF i % 2 = 1 THEN <<"A">> ELSE <<>>],
                       [p \in PhaseRefs |-> Phase("END_OF_STAGE", NoPhase, NoPhase)]) }

\* no single function call is under way
NoResult == << >>
\* one controller only
NoController == << >>
\* no SignalPlanStage has been made
NotCreated == [status |-> "none", stages |-> << >>]

OneController ==
    /\ controller_key = "J1"
    /\ suspended = NoController
    /\ reference = << >>
    /\ mode = "single"

AuxIdle ==
    /\ fn = "none"
    /\ args = << >>
    /\ result = NoResult
    /\ collection = << >>
    /\ created = NotCreated
    /\ OneController

NoPhaseTimings == [p \in PhaseRefs |-> <<>>]
NoArgs == [stream_cycle_time |-> NoneT, cycle_time_factor |-> <<1, 1>>, single_double_triple |-> 1,
           is_pv_px_mode |-> FALSE, is_pedestrian_controller |-> FALSE]
NoReturn == [kind |-> "none", items |-> << >>]

InitEmulate ==
    \E c \in TimingControllers \cup ReduceControllers \cup RepeatControllers :
        /\ phases_in_stage = c.phases_in_stage
        /\ stream_stage_number = [k \in DOMAIN c.phases_in_stage |-> k]
        /\ phase_attrs = c.phase_attrs
        /\ intergreens = c.intergreens
        /\ phase_delays = c.phase_delays
        /\ m37 = [k \in DOMAIN c.phases_in_stage |-> NoM37]
        /\ modified_intergreens = << >>
        /\ modified_phase_delays = << >>
        /\ active_period_id = PeriodOf(MaxUnits)
        /\ active_stage_key = KeyUnset
        /\ plan = [cycle_time |-> 0, items |-> << >>]
        /\ bargs = NoArgs
        /\ stage_sequence = << >>
        /\ stages_used = {}
        /\ item_index = 0
        /\ bpc = "idle"
        /\ returned = NoReturn
        /\ signal_plan = c.signal_plan
        /\ phase_timings = NoPhaseTimings
        /\ registry = << >>
        /\ pc = "start"
        /\ index = 0
        /\ ppos = 0
        /\ unit = 1
        /\ AuxIdle

---------------------------------------------------------------------------
\* SignalEmulator.generate_phase_timings: for signal_plan in self.signal_plans: signal_plan.emulate()

\* (a variant in which the loop catches an exception and goes on)
loop_continues_after_exception(state) == state \in {"done", "raised"}

\* the loop goes on to the next signal plan when emulate has returned; an exception
\* raised in emulate is caught nowhere and leaves the loop
loop_continues(state) == state = "done"

\* the records the collection holds for the signal plan just emulated join those of the
\* signal plans before it; a record has no second interval yet
with_emulated(coll) ==
    LET keys == {k \in DOMAIN registry : k[3] = signal_plan.time_period_id}
    IN  [k \in (DOMAIN coll) \cup keys |->
            IF k \in keys
            THEN LET r == phase_timings[k[1]][registry[k]]
                 IN  [start_time |-> r.start_time, end_time |-> r.end_time,
                      second_start_time |-> NoneT, second_end_time |-> NoneT,
                      cycle_time |-> signal_plan.cycle_time]
            ELSE coll[k]]

\* the signal plan of the controller's next time period is emulated
NextSignalPlan ==
    /\ loop_continues(pc)
    /\ unit < MaxUnits
    /\ unit' = unit + 1
    /\ signal_plan' = [signal_plan EXCEPT !.time_period_id = PeriodOf(unit + 1)]
    /\ phase_timings' = NoPhaseTimings
    /\ collection' = with_emulated(collection)
    /\ pc' = "start"
    /\ index' = 0
    /\ ppos' = 0
    /\ UNCHANGED <<fnVars, twoVars, addVars>>
    /\ UNCHANGED <<geoVars, ovVars, active_period_id, active_stage_key, buildVars, registry>>

---------------------------------------------------------------------------
\* Post-processing of generate_phase_timings (emulator.py 370-394)

\* the key of the index-0 record of the same phase and time period
key_of_index_0(key) == <<key[1], 0, key[3]>>

\* lines 373-377: the times of the record under key become the second interval of the
\* index-0 record
merge_into(coll, key) ==
    [coll EXCEPT ![key_of_index_0(key)].second_start_time = coll[key].start_time,
                 ![key_of_index_0(key)].second_end_time = coll[key].end_time]

\* lines 371-378: the loop over the collection, in the order the records were added,
\* which for the records of a phase and time period is the order of their indices
RECURSIVE merge_loop(_, _)
merge_loop(coll, to_visit) ==
    IF to_visit = {} THEN coll
    ELSE LET key == CHOOSE k \in to_visit : \A j \in to_visit : k[2] <= j[2]
         IN  merge_loop(merge_into(coll, key), to_visit \ {key})

\* lines 381-382: the records with index > 0 leave the collection
remove_by_keys(coll, to_remove) == [k \in (DOMAIN coll) \ to_remove |-> coll[k]]

\* lines 370-382: merge, then removal; the look-up of a missing index-0 record gives
\* None, whose attribute cannot be set
Merge ==
    /\ pc = "done"
    /\ unit = MaxUnits
    /\ LET coll == with_emulated(collection)
           to_remove == {k \in DOMAIN coll : k[2] > 0}
       IN  IF \E k \in to_remove : key_of_index_0(k) \notin DOMAIN coll
           THEN /\ pc' = "raised"
                /\ collection' = coll
           ELSE /\ pc' = "merged"
                /\ collection' = remove_by_keys(merge_loop(coll, to_remove), to_remove)
    /\ UNCHANGED <<fnVars, twoVars, addVars>>
    /\ UNCHANGED <<geoVars, ovVars, active_period_id, active_stage_key, buildVars, signal_plan,
                   phase_timings, registry, index, ppos, unit>>

\* truth value of a time: None and 0 are false
truthy(time) == time # NoneT /\ time # 0

\* the seconds of the cycle a green interval covers, from start_time up to end_time,
\* passing the end of the cycle when end_time is before start_time
seconds_of(start_time, end_time, cycle_time) ==
    IF start_time <= end_time THEN start_time .. end_time - 1
    ELSE (start_time .. cycle_time - 1) \cup (0 .. end_time - 1)

\* PhaseTiming.timings_overlap: the first and the second interval share a second
timings_overlap(r) ==
    seconds_of(r.start_time, r.end_time, r.cycle_time)
        \cap seconds_of(r.second_start_time, r.second_end_time, r.cycle_time) # {}

\* lines 388-391: end_time and second_end_time change places
swap_end_times(r) == [r EXCEPT !.end_time = r.second_end_time, !.second_end_time = r.end_time]

\* lines 384-394: the end times of a record with two overlapping intervals are swapped;
\* a first interval with a time of None cannot be compared
FixOverlaps ==
    /\ pc = "merged"
    /\ LET checked == {k \in DOMAIN collection :
                          truthy(collection[k].second_start_time) /\ truthy(collection[k].second_end_time)}
       IN  IF \E k \in checked : collection[k].start_time = NoneT \/ collection[k].end_time = NoneT
           THEN /\ pc' = "raised"
                /\ UNCHANGED collection
           ELSE /\ pc' = "completed"
                /\ collection' = [k \in DOMAIN collection |->
                                     IF k \in checked /\ timings_overlap(collection[k])
                                     THEN swap_end_times(collection[k])
                                     ELSE collection[k]]
    /\ UNCHANGED <<fnVars, twoVars, addVars>>
    /\ UNCHANGED <<geoVars, ovVars, active_period_id, active_stage_key, buildVars, signal_plan,
                   phase_timings, registry, index, ppos, unit>>

PostProcess == Merge \/ FixOverlaps

---------------------------------------------------------------------------
\* Plan sequence items and their stages (plan.py, PlanSequenceItem)

\* PedBitsToStageNumber: the stage a pedestrian bit selects
PedBitsToStageNumber(p_bit) == IF p_bit = "PV" THEN 1 ELSE 2

\* PlanSequenceItem.stage_numbers: the digits of the F bits, the stages of the P bits,
\* and stage 2 for an item with neither
stage_numbers(item) ==
    item.f_bits
    \o [i \in DOMAIN item.p_bits |-> PedBitsToStageNumber(item.p_bits[i])]
    \o (IF item.f_bits = << >> /\ item.p_bits = << >> THEN <<2>> ELSE << >>)

\* Stages.key_exists_by_stream_number_and_stage_number
key_exists_by_stream_number_and_stage_number(n) ==
    \E k \in DOMAIN stream_stage_number : stream_stage_number[k] = n

\* Stages.get_by_stream_number_and_stage_number: the stage number of the stage found
get_by_stream_number_and_stage_number(n) ==
    CHOOSE k \in DOMAIN stream_stage_number : stream_stage_number[k] = n

\* PlanSequenceItem.stages: the stages of the stream among stage_numbers, in that order
item_stages(item) ==
    LET existing == SelectSeq(stage_numbers(item), key_exists_by_stream_number_and_stage_number)
    IN  [i \in DOMAIN existing |-> get_by_stream_number_and_stage_number(existing[i])]

\* sorted(..., key=stage_number)
RECURSIVE sorted_stages(_)
sorted_stages(s) ==
    IF s = << >> THEN << >>
    ELSE LET rest == sorted_stages(SubSeq(s, 1, Len(s) - 1))
             x == s[Len(s)]
             k == Cardinality({i \in DOMAIN rest : rest[i] <= x})
         IN  SubSeq(rest, 1, k) \o <<x>> \o SubSeq(rest, k + 1, Len(rest))

\* Stream.active_stage: the stage under the cursor, if the cursor is on a stage
has_active_stage(cursor) == cursor \in DOMAIN phases_in_stage

\* (a variant in plain ascending order)
stages_existing_ascending(item, cursor) == sorted_stages(item_stages(item))

\* PlanSequenceItem.stages_existing_in_stream: in cyclic order from just after the
\* active stage when there is one, else in the item's order
stages_existing_in_stream(item, cursor) ==
    LET existing_stages == item_stages(item)
        existing_sorted == sorted_stages(existing_stages)
    IN  IF has_active_stage(cursor)
        THEN SelectSeq(existing_sorted, LAMBDA a : a > cursor)
             \o SelectSeq(existing_sorted, LAMBDA a : a < cursor)
        ELSE existing_stages

\* Stage.m37_exists
m37_exists(stage) == m37[stage] # NoM37

\* SignalPlans.get_m37_stage_numbers: the stages with field statistics of positive total time
m37_stages == {stream_stage_number[k] : k \in {j \in DOMAIN m37 : m37[j] # NoM37 /\ m37[j].total_time > 0}}

\* for stage in ...stages_existing_in_stream(stream): if stage.m37_exists(..) or not m37_check: ...; break
\* the first such stage, or NoneT
first_candidate(item, m37_check, cursor) ==
    LET c == SelectSeq(stages_existing_in_stream(item, cursor), LAMBDA st : m37_exists(st) \/ ~m37_check)
    IN  IF c = << >> THEN NoneT ELSE c[1]

\* Plan.process_plan_sequence_item_initial: the new stage key (NoneT for None); "error"
\* stands for the AttributeError of a cursor whose stage is None
process_plan_sequence_item_initial(item, m37_check, cursor) ==
    IF cursor = KeyUnset
    THEN [error |-> FALSE, new_stage_key |-> first_candidate(item, m37_check, cursor)]
    ELSE IF ~has_active_stage(cursor)
    THEN [error |-> TRUE, new_stage_key |-> NoneT]
    ELSE IF \E i \in DOMAIN stage_numbers(item) : stage_numbers(item)[i] = stream_stage_number[cursor]
    THEN [error |-> FALSE, new_stage_key |-> cursor]
    ELSE [error |-> FALSE, new_stage_key |-> first_candidate(item, m37_check, cursor)]

\* the loop of get_initial_stage_id(_ped) over the items from position i on:
\* acc = [cursor, initial_stage_id, error]
RECURSIVE initial_stage_from(_, _, _, _)
initial_stage_from(items, m37_check, i, acc) ==
    IF i > Len(items) \/ acc.error THEN acc
    ELSE LET r == process_plan_sequence_item_initial(items[i], m37_check, acc.cursor)
         IN  initial_stage_from(items, m37_check, i + 1,
                 IF r.error THEN [acc EXCEPT !.error = TRUE]
                 ELSE IF r.new_stage_key # NoneT
                 THEN [cursor |-> r.new_stage_key, initial_stage_id |-> r.new_stage_key, error |-> FALSE]
                 ELSE acc)

\* Plan.get_initial_stage_id: the cursor is moved along by the items; the stage of the
\* last item that resolved is the initial stage (NoneT if none did)
get_initial_stage_id(cursor) ==
    initial_stage_from(plan.items, Cardinality(m37_stages) > 0, 1,
                       [cursor |-> cursor, initial_stage_id |-> NoneT, error |-> FALSE])

\* sorted(self.plan_sequence_items, key=lambda x: len(x.p_bits)) (a stable sort)
RECURSIVE sorted_by_p_bits(_)
sorted_by_p_bits(items) ==
    IF items = << >> THEN << >>
    ELSE LET rest == sorted_by_p_bits(SubSeq(items, 1, Len(items) - 1))
             x == items[Len(items)]
             k == Cardinality({i \in DOMAIN rest : Len(rest[i].p_bits) <= Len(x.p_bits)})
         IN  SubSeq(rest, 1, k) \o <<x>> \o SubSeq(rest, k + 1, Len(rest))

\* Plan.get_initial_stage_id_ped
get_initial_stage_id_ped(cursor) ==
    initial_stage_from(sorted_by_p_bits(plan.items), Cardinality(m37_stages) > 0, 1,
                       [cursor |-> cursor, initial_stage_id |-> NoneT, error |-> FALSE])

---------------------------------------------------------------------------
\* Stage sequences (plan.py, StageSequenceItem and DefaultList)

\* a call rate is a fraction <<numerator, denominator>>
StageSequenceItem(stage, pulse_time, effective_stage_call_rate) ==
    [stage |-> stage, pulse_time |-> pulse_time, effective_stage_call_rate |-> effective_stage_call_rate]

\* the default value None of a DefaultList(None)
NoItem == StageSequenceItem(NoneT, NoneT, <<1, 1>>)

\* DefaultList._handle_negative_index
handle_negative_index(seq, idx) == IF idx < 0 THEN idx + Len(seq) ELSE idx

\* DefaultList.__getitem__ with an integer: the element, or the default value
default_list_get(seq, idx) ==
    LET i == handle_negative_index(seq, idx)
    IN  IF 0 <= i /\ i < Len(seq) THEN seq[i + 1] ELSE NoItem

\* list.__getitem__(slice(None, stop)): Python clamps the bound to the list
list_slice_to(seq, stop) ==
    LET n == Len(seq)
        e == IF stop < 0 THEN Max2(stop + n, 0) ELSE IF stop > n THEN n ELSE stop
    IN  SubSeq(seq, 1, e)

\* DefaultList.__getitem__ with slice(None, stop): a plain list
default_list_slice_to(seq, stop) == list_slice_to(seq, handle_negative_index(seq, stop))

\* Plans.DEFAULT_PED_STAGE_CALL_RATE.get(active_period_id, 1.0)
get_default_ped_call_rate == IF active_period_id \in {"AM", "OP", "PM"} THEN <<1, 2>> ELSE <<1, 1>>

\* the stage the item moves the stream to: the active stage when the item names it or
\* no candidate is found, else the first candidate
resolve_new_stage(item, m37_check, cursor) ==
    IF \E i \in DOMAIN stage_numbers(item) : stage_numbers(item)[i] = stream_stage_number[cursor]
    THEN cursor
    ELSE LET c == first_candidate(item, m37_check, cursor)
         IN  IF c = NoneT THEN cursor ELSE c

\* (a variant that pads every item)
pulse_time_pad_always(item) == 2

\* lines 509-510: an item with neither F bits nor P bits is a fixed-length step, 2 longer
pulse_time_pad(item) == IF item.f_bits = << >> /\ item.p_bits = << >> THEN 2 ELSE 0

\* lines 500-508: the time from the previous entry's pulse time to the item's
green_time_from(previous_pulse_time, item_pulse_time, cycle_time) ==
    IF item_pulse_time > previous_pulse_time
    THEN item_pulse_time - previous_pulse_time
    ELSE item_pulse_time + cycle_time - previous_pulse_time

\* Plan.get_stage_length_from_pulse_times (lines 527-532): the same computation
get_stage_length_from_pulse_times(previous_pulse_time, this_pulse_time, cycle_time) ==
    IF this_pulse_time > previous_pulse_time
    THEN this_pulse_time - previous_pulse_time
    ELSE this_pulse_time + cycle_time - previous_pulse_time

\* Plan.process_plan_sequence_item: [kind |-> "raise"], [kind |-> "none"] or a new item
process_plan_sequence_item(item, previous, m37_check, cursor) ==
    LET stream_cycle_time == IF bargs.stream_cycle_time = NoneT THEN plan.cycle_time
                             ELSE bargs.stream_cycle_time
        stream_cycle_time_adjusted == RoundHalfEven(stream_cycle_time * bargs.cycle_time_factor[1],
                                                    bargs.cycle_time_factor[2])
        controller_cycle_time == stream_cycle_time_adjusted * bargs.single_double_triple
        new_stage == resolve_new_stage(item, m37_check, cursor)
        green_time == green_time_from(previous.pulse_time, item.pulse_time, plan.cycle_time)
        pulse_time_1 == IF m37_check /\ previous # NoItem
                        THEN previous.pulse_time
                                 + RoundHalfEven(m37[previous.stage].total_time * bargs.cycle_time_factor[1],
                                                 bargs.cycle_time_factor[2])
                        ELSE IF previous = NoItem THEN item.pulse_time
                        ELSE previous.pulse_time + green_time
        pulse_time_2 == pulse_time_1 + pulse_time_pad(item)
        ped_stage_trailing_intergreen_time == get_intergreen_time_by_phase_keys("B", "A", TRUE)
        pulse_time_3 == IF bargs.is_pv_px_mode /\ previous # NoItem
                        THEN IF new_stage = 1 THEN pulse_time_2 - ped_stage_trailing_intergreen_time
                             ELSE pulse_time_2 + ped_stage_trailing_intergreen_time
                        ELSE pulse_time_2
    IN  IF ~has_active_stage(cursor) THEN [kind |-> "raise"]
        ELSE IF new_stage = cursor THEN [kind |-> "none"]
        ELSE IF m37_check /\ previous # NoItem /\ ~m37_exists(previous.stage) THEN [kind |-> "raise"]
        ELSE [kind |-> "item",
              item |-> StageSequenceItem(new_stage,
                           Plan_constrain_time_to_cycle_time(pulse_time_3, controller_cycle_time), <<1, 1>>)]

\* Plan.process_plan_sequence_item_pvpx
process_plan_sequence_item_pvpx(item, previous, m37_check, cursor) ==
    LET stream_cycle_time == IF bargs.stream_cycle_time = NoneT THEN plan.cycle_time
                             ELSE bargs.stream_cycle_time
        controller_cycle_time == (stream_cycle_time * bargs.cycle_time_factor[1] * bargs.single_double_triple)
                                     \div bargs.cycle_time_factor[2]
        new_stage == resolve_new_stage(item, m37_check, cursor)
        road_green_stage == get_by_stream_number_and_stage_number(1)
        not_road_green_stage == get_by_stream_number_and_stage_number(2)
        ped_green_man_time == phase_attrs[phases_in_stage[not_road_green_stage][1]].min_time
        ig_ped == Plan_get_interstage_time(road_green_stage, not_road_green_stage, FALSE)
        ig_traffic == Plan_get_interstage_time(not_road_green_stage, road_green_stage, FALSE)
        m37_not_road_green_time == IF m37_exists(not_road_green_stage) THEN m37[not_road_green_stage].total_time
                                   ELSE ig_ped + ig_traffic + ped_green_man_time
        first_rate == IF m37_exists(not_road_green_stage)
                      THEN <<m37_not_road_green_time, ig_ped + ig_traffic + ped_green_man_time>>
                      ELSE get_default_ped_call_rate
        later_rate == IF m37_exists(not_road_green_stage) THEN <<1, 1>> ELSE get_default_ped_call_rate
        adjustment_seconds == (ig_traffic * m37_not_road_green_time) \div (ped_green_man_time + ig_ped + ig_traffic)
        stage_length == RoundHalfEven(
            (m37_not_road_green_time - adjustment_seconds) * later_rate[1] * bargs.cycle_time_factor[1],
            later_rate[2] * bargs.cycle_time_factor[2])
    IN  IF ~has_active_stage(cursor) THEN [kind |-> "raise"]
        ELSE IF new_stage = cursor THEN [kind |-> "none"]
        ELSE IF previous = NoItem
        THEN [kind |-> "item",
              item |-> StageSequenceItem(new_stage,
                           Plan_constrain_time_to_cycle_time(item.pulse_time, controller_cycle_time), first_rate)]
        ELSE IF stream_stage_number[new_stage] = 1 \/ bargs.single_double_triple > 1
        THEN [kind |-> "item",
              item |-> StageSequenceItem(new_stage,
                           Plan_constrain_time_to_cycle_time(previous.pulse_time + stage_length, controller_cycle_time),
                           later_rate)]
        ELSE [kind |-> "raise"]

---------------------------------------------------------------------------
\* Plan.get_stage_sequence and the builders

\* the builder get_stage_sequence hands the plan to
get_stage_sequence_mode ==
    IF bargs.is_pv_px_mode THEN "pv_px"
    ELSE IF bargs.is_pedestrian_controller THEN "pedestrian"
    ELSE "junction"

m37_check == Cardinality(m37_stages) > 0

\* (a variant that does not look at the stages used)
may_append_any_stage(new_item, previous, used) ==
    (previous # NoItem /\ previous.stage # new_item.stage) \/ previous = NoItem

\* a new item joins the sequence unless its stage was used in this cycle (single
\* cycling) or is the stage of the item before it
may_append(new_item, previous, used) ==
    /\ (new_item.stage \notin used \/ bargs.single_double_triple > 1)
    /\ ((previous # NoItem /\ previous.stage # new_item.stage) \/ previous = NoItem)

\* (a variant that leaves an empty sequence empty)
without_fallback(seq, initial_stage_id) == seq

\* lines 270-278: an empty sequence becomes the single entry (initial stage, 0)
with_fallback(seq, initial_stage_id) ==
    IF Len(seq) = 0 THEN <<StageSequenceItem(initial_stage_id, 0, <<1, 1>>)>> ELSE seq

\* (a variant that drops the last entry of every sequence of more than one entry)
drop_last_entry(built) ==
    IF Len(built) > 1
    THEN [kind |-> "list", items |-> default_list_slice_to(built, -1)]
    ELSE [kind |-> "DefaultList", items |-> built]

\* lines 292-293: a sequence that ends on the stage it starts with loses its last entry;
\* the slice is a plain list
drop_closing_entry(built) ==
    IF Len(built) > 1 /\ default_list_get(built, 0).stage = default_list_get(built, -1).stage
    THEN [kind |-> "list", items |-> default_list_slice_to(built, -1)]
    ELSE [kind |-> "DefaultList", items |-> built]

\* get_stage_sequence_junction, lines 239-243
JunctionBegin ==
    /\ bpc = "start"
    /\ get_stage_sequence_mode = "junction"
    /\ LET r == get_initial_stage_id(active_stage_key)
       IN  IF r.error
           THEN /\ bpc' = "raised"
                /\ UNCHANGED active_stage_key
           ELSE /\ bpc' = "loop"
                /\ active_stage_key' = r.initial_stage_id
    /\ stage_sequence' = << >>
    /\ stages_used' = {}
    /\ item_index' = 0
    /\ UNCHANGED auxVars
    /\ UNCHANGED <<geoVars, ovVars, active_period_id, plan, bargs, returned, emuVars, unit>>

\* get_stage_sequence_junction, lines 244-267: one plan sequence item
JunctionItem ==
    /\ bpc = "loop"
    /\ get_stage_sequence_mode = "junction"
    /\ item_index < Len(plan.items) * bargs.single_double_triple
    /\ LET plan_sequence_item == plan.items[(item_index % Len(plan.items)) + 1]
           previous_stage_sequence_item == default_list_get(stage_sequence, -1)
           r == process_plan_sequence_item(plan_sequence_item, previous_stage_sequence_item,
                                           m37_check, active_stage_key)
       IN  IF r.kind = "raise"
           THEN /\ bpc' = "raised"
                /\ UNCHANGED <<active_stage_key, stage_sequence, stages_used, item_index>>
           ELSE IF r.kind = "item" /\ may_append(r.item, previous_stage_sequence_item, stages_used)
           THEN /\ active_stage_key' = r.item.stage
                /\ stage_sequence' = Append(stage_sequence, r.item)
                /\ stages_used' = stages_used \cup {r.item.stage}
                /\ item_index' = item_index + 1
                /\ UNCHANGED bpc
           ELSE /\ item_index' = item_index + 1
                /\ UNCHANGED <<active_stage_key, stage_sequence, stages_used, bpc>>
    /\ UNCHANGED auxVars
    /\ UNCHANGED <<geoVars, ovVars, active_period_id, plan, bargs, returned, emuVars, unit>>

\* get_stage_sequence_junction, lines 269-297: fallback, closing entry, validation, return
JunctionFinish ==
    /\ bpc = "loop"
    /\ get_stage_sequence_mode = "junction"
    /\ item_index = Len(plan.items) * bargs.single_double_triple
    /\ LET r == get_initial_stage_id(active_stage_key)
           built == with_fallback(stage_sequence, r.initial_stage_id)
       IN  IF Len(stage_sequence) = 0 /\ r.error
           THEN /\ bpc' = "raised"
                /\ UNCHANGED <<active_stage_key, stage_sequence, returned>>
           ELSE IF m37_check /\ \E i \in DOMAIN built : built[i].stage = NoneT
           THEN \* lines 280-291 read the stream stage number of every entry's stage
                /\ bpc' = "raised"
                /\ active_stage_key' = r.cursor
                /\ stage_sequence' = built
                /\ UNCHANGED returned
           ELSE /\ active_stage_key' = IF Len(stage_sequence) = 0 THEN r.cursor ELSE active_stage_key
                /\ stage_sequence' = built
                /\ returned' = drop_closing_entry(built)
                /\ bpc' = "done"
    /\ UNCHANGED auxVars
    /\ UNCHANGED <<geoVars, ovVars, active_period_id, plan, bargs, stages_used, item_index, emuVars, unit>>

\* get_stage_sequence_pv_px, lines 193-196
PvPxBegin ==
    /\ bpc = "start"
    /\ get_stage_sequence_mode = "pv_px"
    /\ LET r == get_initial_stage_id_ped(active_stage_key)
       IN  IF r.error
           THEN /\ bpc' = "raised"
                /\ UNCHANGED active_stage_key
           ELSE /\ bpc' = "loop"
                /\ active_stage_key' = r.initial_stage_id
    /\ stage_sequence' = << >>
    /\ stages_used' = {}
    /\ item_index' = 0
    /\ UNCHANGED auxVars
    /\ UNCHANGED <<geoVars, ovVars, active_period_id, plan, bargs, returned, emuVars, unit>>

\* get_stage_sequence_pv_px, lines 197-217: one plan sequence item
PvPxItem ==
    /\ bpc = "loop"
    /\ get_stage_sequence_mode = "pv_px"
    /\ item_index < Len(plan.items)
    /\ LET plan_sequence_item == sorted_by_p_bits(plan.items)[item_index + 1]
           previous_stage_sequence_item == default_list_get(stage_sequence, -1)
           r == process_plan_sequence_item_pvpx(plan_sequence_item, previous_stage_sequence_item,
                                                m37_check, active_stage_key)
       IN  IF r.kind = "raise"
           THEN /\ bpc' = "raised"
                /\ UNCHANGED <<active_stage_key, stage_sequence, item_index>>
           ELSE IF r.kind = "item"
                   /\ ((previous_stage_sequence_item # NoItem
                          /\ previous_stage_sequence_item.stage # r.item.stage)
                       \/ previous_stage_sequence_item = NoItem)
           THEN /\ active_stage_key' = r.item.stage
                /\ stage_sequence' = Append(stage_sequence, r.item)
                /\ item_index' = item_index + 1
                /\ UNCHANGED bpc
           ELSE /\ item_index' = item_index + 1
                /\ UNCHANGED <<active_stage_key, stage_sequence, bpc>>
    /\ UNCHANGED auxVars
    /\ UNCHANGED <<geoVars, ovVars, active_period_id, plan, bargs, stages_used, returned, emuVars, unit>>

\* (a variant that shifts the second copy without reducing it to the cycle)
double_cycling_unreduced(seq) ==
    seq \o [i \in DOMAIN seq |-> [seq[i] EXCEPT !.pulse_time = @ + bargs.stream_cycle_time]]

\* lines 221-231: the sequence followed by a copy of it one stream cycle later
double_cycling(seq) ==
    LET controller_cycle_time ==
            (bargs.stream_cycle_time * bargs.cycle_time_factor[1] * bargs.single_double_triple)
                \div bargs.cycle_time_factor[2]
    IN  seq \o [i \in DOMAIN seq |->
                   [seq[i] EXCEPT !.pulse_time =
                       Plan_constrain_time_to_cycle_time(@ + bargs.stream_cycle_time, controller_cycle_time)]]

\* get_stage_sequence_pv_px, lines 219-234
PvPxFinish ==
    /\ bpc = "loop"
    /\ get_stage_sequence_mode = "pv_px"
    /\ item_index = Len(plan.items)
    /\ returned' = [kind |-> "DefaultList",
                    items |-> IF bargs.single_double_triple = 2 THEN double_cycling(stage_sequence)
                              ELSE stage_sequence]
    /\ bpc' = "done"
    /\ UNCHANGED auxVars
    /\ UNCHANGED <<geoVars, ovVars, active_period_id, active_stage_key, plan, bargs, stage_sequence,
                   stages_used, item_index, emuVars, unit>>

---------------------------------------------------------------------------
\* Plan.get_stage_sequence_pedestrian

\* line 149: field statistics count when more than one stage has them
m37_check_pedestrian == Cardinality(m37_stages) > 1

\* no item found by the for ... else look-up
NoPlanItem == [pulse_time |-> NoneT, f_bits |-> << >>, p_bits |-> << >>]

\* (a variant that takes the first item that carries the bit among others)
first_item_with_bit(items, bit) ==
    LET at == {i \in DOMAIN items : \E j \in DOMAIN items[i].f_bits : items[i].f_bits[j] = bit}
    IN  IF at = {} THEN NoPlanItem ELSE items[CHOOSE i \in at : \A j \in at : i <= j]

\* lines 155-166: the first item, in key order, whose f_bits are exactly [F<bit>], or NoPlanItem
first_item_with_f_bits(items, bit) ==
    LET at == {i \in DOMAIN items : items[i].f_bits = <<bit>>}
    IN  IF at = {} THEN NoPlanItem ELSE items[CHOOSE i \in at : \A j \in at : i <= j]

\* the two items the pedestrian builder processes: F2, then F1
pedestrian_items == <<first_item_with_f_bits(plan.items, 2), first_item_with_f_bits(plan.items, 1)>>

\* Plan.process_plan_sequence_item_pedestrian
process_plan_sequence_item_pedestrian(item, previous, check, cursor) ==
    LET stream_cycle_time == IF bargs.stream_cycle_time = NoneT THEN plan.cycle_time
                             ELSE bargs.stream_cycle_time
        new_stage == resolve_new_stage(item, check, cursor)
        road_green_stage == get_by_stream_number_and_stage_number(1)
        not_road_green_stage == get_by_stream_number_and_stage_number(2)
        ped_green_man_time == phase_attrs[phases_in_stage[not_road_green_stage][1]].min_time
        ig_ped == Plan_get_interstage_time(road_green_stage, not_road_green_stage, FALSE)
        m37_not_road_green_time == IF m37_exists(not_road_green_stage) THEN m37[not_road_green_stage].total_time
                                   ELSE ig_ped + ped_green_man_time
        first_rate == IF m37_exists(not_road_green_stage)
                      THEN <<m37_not_road_green_time, ig_ped + ped_green_man_time>>
                      ELSE get_default_ped_call_rate
        later_rate == IF m37_exists(not_road_green_stage) THEN <<1, 1>> ELSE get_default_ped_call_rate
        stage_length == RoundHalfEven(m37_not_road_green_time * later_rate[1] * bargs.cycle_time_factor[1],
                                      later_rate[2] * bargs.cycle_time_factor[2])
    IN  IF ~has_active_stage(cursor) THEN [kind |-> "raise"]
        ELSE IF new_stage = cursor THEN [kind |-> "none"]
        ELSE IF previous = NoItem
        THEN [kind |-> "item",
              item |-> StageSequenceItem(new_stage,
                           Plan_constrain_time_to_cycle_time(item.pulse_time, stream_cycle_time), first_rate)]
        ELSE IF stream_stage_number[new_stage] = 1
        THEN [kind |-> "item",
              item |-> StageSequenceItem(new_stage,
                           Plan_constrain_time_to_cycle_time(previous.pulse_time + stage_length, stream_cycle_time),
                           later_rate)]
        ELSE [kind |-> "raise"]

\* lines 148-166: the cursor is put on stream stage 1 and the two items are looked up
PedestrianBegin ==
    /\ bpc = "start"
    /\ get_stage_sequence_mode = "pedestrian"
    /\ active_stage_key' = get_by_stream_number_and_stage_number(1)
    /\ bpc' = IF \E i \in 1 .. 2 : pedestrian_items[i] = NoPlanItem THEN "raised" ELSE "loop"
    /\ stage_sequence' = << >>
    /\ stages_used' = {}
    /\ item_index' = 0
    /\ UNCHANGED auxVars
    /\ UNCHANGED <<geoVars, ovVars, active_period_id, plan, bargs, returned, emuVars, unit>>

\* lines 168-187: one of the two items
PedestrianItem ==
    /\ bpc = "loop"
    /\ get_stage_sequence_mode = "pedestrian"
    /\ item_index < Len(pedestrian_items)
    /\ LET plan_sequence_item == pedestrian_items[item_index + 1]
           previous_stage_sequence_item == default_list_get(stage_sequence, -1)
           r == process_plan_sequence_item_pedestrian(plan_sequence_item, previous_stage_sequence_item,
                                                      m37_check_pedestrian, active_stage_key)
       IN  IF r.kind = "raise"
           THEN /\ bpc' = "raised"
                /\ UNCHANGED <<active_stage_key, stage_sequence, item_index>>
           ELSE IF r.kind = "item"
                   /\ ((previous_stage_sequence_item # NoItem
                          /\ previous_stage_sequence_item.stage # r.item.stage)
                       \/ previous_stage_sequence_item = NoItem)
           THEN /\ active_stage_key' = r.item.stage
                /\ stage_sequence' = Append(stage_sequence, r.item)
                /\ item_index' = item_index + 1
                /\ UNCHANGED bpc
           ELSE /\ item_index' = item_index + 1
                /\ UNCHANGED <<active_stage_key, stage_sequence, bpc>>
    /\ UNCHANGED auxVars
    /\ UNCHANGED <<geoVars, ovVars, active_period_id, plan, bargs, stages_used, returned, emuVars, unit>>

\* line 188: the sequence is returned as it is
PedestrianFinish ==
    /\ bpc = "loop"
    /\ get_stage_sequence_mode = "pedestrian"
    /\ item_index = Len(pedestrian_items)
    /\ returned' = [kind |-> "DefaultList", items |-> stage_sequence]
    /\ bpc' = "done"
    /\ UNCHANGED auxVars
    /\ UNCHANGED <<geoVars, ovVars, active_period_id, active_stage_key, plan, bargs, stage_sequence,
                   stages_used, item_index, emuVars, unit>>

Build ==
    \/ JunctionBegin \/ JunctionItem \/ JunctionFinish
    \/ PvPxBegin \/ PvPxItem \/ PvPxFinish
    \/ PedestrianBegin \/ PedestrianItem \/ PedestrianFinish

---------------------------------------------------------------------------
\* Streams and plans built

PlanSequenceItem(pulse_time, f_bits, p_bits) ==
    [pulse_time |-> pulse_time, f_bits |-> f_bits, p_bits |-> p_bits]

\* the bits of the items of a junction plan: a plain step, one or two forced stages, a
\* forced stage the stream does not have
JunctionBits ==
    { [f_bits |-> f, p_bits |-> << >>] :
          f \in { << >>, <<1>>, <<2>>, <<1, 2>>, <<1, 3>>, <<2, 3>>, <<7>> } }

\* the bits of the items of a plan of a PV/PX stream
PvPxBits ==
    { [f_bits |-> << >>, p_bits |-> << >>], [f_bits |-> << >>, p_bits |-> <<"PV">>],
      [f_bits |-> << >>, p_bits |-> <<"PX">>] }

\* the pulse times of the items, by position: rising from 0, or in no order
PulseTimes == { <<0, 30, 45, 50, 55>>, <<10, 55, 20, 50, 5>> }

PlanOf(n, bits, pulses) ==
    [cycle_time |-> 60,
     items |-> [i \in 1 .. n |-> PlanSequenceItem(pulses[i], bits[i].f_bits, bits[i].p_bits)]]

\* PlanSequenceItem.__post_init__: a PV bit in an item makes the stream a PV/PX stream
has_pv_bit(p) == \E i \in DOMAIN p.items : \E j \in DOMAIN p.items[i].p_bits : p.items[i].p_bits[j] = "PV"

\* the items of a plan carry different bits
Distinct(bits) == \A i, j \in DOMAIN bits : i # j => bits[i] # bits[j]

\* plans that call stage 2 and stage 1 in turn, over and over
RevisitBits == [i \in 1 .. (MaxItems + 1) |-> [f_bits |-> IF i % 2 = 1 THEN <<2>> ELSE <<1>>, p_bits |-> << >>]]

RevisitPlans == { PlanOf(MaxItems + 1, RevisitBits, pulses) : pulses \in PulseTimes }

Plans ==
    UNION { { PlanOf(n, bits, pulses) :
                  bits \in {b \in [1 .. n -> JunctionBits] : Distinct(b)}, pulses \in PulseTimes } :
              n \in 0 .. MaxItems }
    \cup RevisitPlans
    \cup
    { p \in UNION { { PlanOf(n, bits, pulses) : bits \in [1 .. n -> PvPxBits], pulses \in PulseTimes } :
                      n \in 1 .. MaxItems } : has_pv_bit(p) }

\* single cycling, double cycling, double cycling of a stream a quarter of the controller's
\* cycle (for PV/PX streams only), and double cycling under a controller cycle of 115
\* (single_double_triple, and cycle_time_factor as a fraction, as add_from_stream_plan_dict
\* derives them from a stream cycle time of 60)
Cycling == { <<1, <<1, 1>>>>, <<2, <<1, 1>>>>, <<2, <<2, 1>>>>, <<2, <<23, 24>>>> }

\* the field statistics of a time period: none, for stage 3, or for stages 1 and 2
M37s ==
    { [k \in 1 .. 3 |-> IF k \in S THEN [total_time |-> 20, interstage_time |-> 5] ELSE NoM37] :
          S \in { {}, {3}, {1, 2} } }

InitBuild ==
    \E p \in Plans, c \in Cycling, f \in M37s, is_pedestrian_controller \in BOOLEAN :
        /\ has_pv_bit(p) \/ c[2] # <<2, 1>>
        /\ is_pedestrian_controller => (~has_pv_bit(p) /\ c[1] = 1)
        /\ phases_in_stage = [k \in 1 .. 3 |-> IF k = 1 THEN <<"A">> ELSE IF k = 2 THEN <<"B">> ELSE <<"A", "B">>]
        /\ stream_stage_number = [k \in 1 .. 3 |-> k]
        /\ phase_attrs = [r \in PhaseRefs |-> Phase("END_OF_STAGE", NoPhase, NoPhase)]
        /\ intergreens = [k \in PhaseRefs \X PhaseRefs |-> 5]
        /\ phase_delays = [k \in (1 .. 3) \X (1 .. 3) \X PhaseRefs |-> 0]
        /\ m37 = f
        /\ modified_intergreens = << >>
        /\ modified_phase_delays = << >>
        /\ active_period_id = PeriodOf(1)
        /\ active_stage_key = KeyUnset
        /\ plan = p
        /\ bargs = [stream_cycle_time |-> 60, cycle_time_factor |-> c[2], single_double_triple |-> c[1],
                    is_pv_px_mode |-> has_pv_bit(p), is_pedestrian_controller |-> is_pedestrian_controller]
        /\ stage_sequence = << >>
        /\ stages_used = {}
        /\ item_index = 0
        /\ bpc = "start"
        /\ returned = NoReturn
        /\ signal_plan = SignalPlan(60, << >>)
        /\ phase_timings = NoPhaseTimings
        /\ registry = << >>
        /\ pc = "idle"
        /\ index = 0
        /\ ppos = 0
        /\ unit = 1
        /\ AuxIdle

---------------------------------------------------------------------------
\* SignalPlans.add_from_stream_plan_dict, lines 148-197: the SignalPlanStages of the
\* stream, made from the stage sequence that Plan.get_stage_sequence returned

\* line 106; cycle_time_factor is controller_cycle_time / (stream_cycle_time * single_double_triple)
controller_cycle_time ==
    (bargs.stream_cycle_time * bargs.single_double_triple * bargs.cycle_time_factor[1])
        \div bargs.cycle_time_factor[2]

\* int(interstage_length * effective_stage_call_rate)
scaled_by_call_rate(interstage_length, rate) == (interstage_length * rate[1]) \div rate[2]

\* lines 164-195: the SignalPlanStage of entry this_ssi (the field statistics of the
\* model are of stages other than PG and GX)
new_signal_plan_stage(previous_ssi, this_ssi, next_ssi, signal_plan_sequence_number) ==
    LET total_length == get_stage_length_from_pulse_points(this_ssi.pulse_time, next_ssi.pulse_time,
                                                           controller_cycle_time)
        interstage_length_0 ==
            IF m37_exists(this_ssi.stage)
            THEN RoundHalfEven(m37[this_ssi.stage].interstage_time * bargs.cycle_time_factor[1],
                               bargs.cycle_time_factor[2])
            ELSE get_interstage_time(previous_ssi.stage, this_ssi.stage, FALSE)
        interstage_length ==
            IF this_ssi.effective_stage_call_rate[1] < this_ssi.effective_stage_call_rate[2]
            THEN scaled_by_call_rate(interstage_length_0, this_ssi.effective_stage_call_rate)
            ELSE IF previous_ssi.effective_stage_call_rate[1] < previous_ssi.effective_stage_call_rate[2]
            THEN scaled_by_call_rate(interstage_length_0, previous_ssi.effective_stage_call_rate)
            ELSE interstage_length_0
    IN  [signal_plan_sequence_number |-> signal_plan_sequence_number,
         stage_number |-> this_ssi.stage,
         total_length |-> total_length,
         interstage_length |-> interstage_length,
         green_length |-> total_length - interstage_length,
         pulse_point |-> this_ssi.pulse_time]

\* the stage of the entry, or of the entry before it when that one is read, is None
entry_raises(previous_ssi, this_ssi) ==
    \/ ~has_active_stage(this_ssi.stage)
    \/ ~m37_exists(this_ssi.stage) /\ ~has_active_stage(previous_ssi.stage)

\* (a variant that makes no stage for the last entry)
iter_all_but_last(seq) ==
    [i \in 1 .. (Len(seq) - 1) |->
        <<seq[IF i = 1 THEN Len(seq) ELSE i - 1], seq[i], seq[i + 1]>>]

\* DefaultList.iter_previous_current_next: zip([self[-1]] + self[:-1], self, self[1:] + [self[0]])
iter_previous_current_next(seq) ==
    [i \in 1 .. Len(seq) |->
        <<seq[IF i = 1 THEN Len(seq) ELSE i - 1], seq[i], seq[IF i = Len(seq) THEN 1 ELSE i + 1]>>]

\* the loop of lines 163-197 from triple i on; acc = [status, stages]
RECURSIVE signal_plan_stages_from(_, _, _)
signal_plan_stages_from(triples, i, acc) ==
    IF i > Len(triples) THEN [acc EXCEPT !.status = "added"]
    ELSE IF entry_raises(triples[i][1], triples[i][2]) THEN [acc EXCEPT !.status = "raised"]
    ELSE signal_plan_stages_from(triples, i + 1,
             [acc EXCEPT !.stages = Append(@, new_signal_plan_stage(triples[i][1], triples[i][2],
                                                                    triples[i][3], i - 1))])

\* lines 155 and 163: stage_sequence[0].pulse_time is read, and the method
\* iter_previous_current_next is one of DefaultList, not of a plain list
add_signal_plan_stages(stage_sequence_returned) ==
    IF stage_sequence_returned.items = << >> \/ stage_sequence_returned.kind # "DefaultList"
    THEN [status |-> "raised", stages |-> << >>]
    ELSE signal_plan_stages_from(iter_previous_current_next(stage_sequence_returned.items), 1,
                                 [status |-> "running", stages |-> << >>])

AddSignalPlanStages ==
    /\ bpc = "done"
    /\ created.status = "none"
    /\ created' = add_signal_plan_stages(returned)
    /\ UNCHANGED <<fnVars, postVars, twoVars>>
    /\ UNCHANGED <<geoVars, ovVars, active_period_id, active_stage_key, buildVars, emuVars, unit>>

\* how the unit of this time period stands: the plan is being built, the stages are
\* being made ("running"), all is done, or an exception was raised
period_state ==
    IF bpc # "done" THEN bpc
    ELSE IF created.status = "added" THEN "done"
    ELSE IF created.status = "raised" THEN "raised"
    ELSE "running"

---------------------------------------------------------------------------
\* SignalEmulator.generate_signal_plans: for ... time_period in self.time_periods: ...

\* (a variant in which the loop catches an exception and goes on)
periods_loop_continues_after_exception(state) == state \in {"done", "raised"}

\* the loop goes on to the next time period when the plan of this one has been built and
\* its stages made; an exception raised on the way is caught nowhere and leaves the loop
periods_loop_continues(state) == state = "done"

\* lines 184-188: the next time period becomes the active one, with its own field
\* statistics, and the stream's plan is built again
NextTimePeriod ==
    /\ periods_loop_continues(period_state)
    /\ unit < MaxUnits
    /\ unit' = unit + 1
    /\ active_period_id' = PeriodOf(unit + 1)
    /\ \E f \in M37s : m37' = f
    /\ bpc' = "start"
    /\ stage_sequence' = << >>
    /\ stages_used' = {}
    /\ item_index' = 0
    /\ returned' = NoReturn
    /\ created' = NotCreated
    /\ UNCHANGED <<fnVars, postVars, twoVars>>
    /\ UNCHANGED <<phases_in_stage, stream_stage_number, phase_attrs, intergreens, phase_delays,
                   ovVars, active_stage_key, plan, bargs, emuVars>>

---------------------------------------------------------------------------
\* The two batches: the plans of a stream are built period by period
\* (generate_signal_plans), the signal plans of a controller are emulated one after
\* the other (generate_phase_timings)

Init == InitBuild \/ InitEmulate

Next == Build \/ AddSignalPlanStages \/ NextTimePeriod \/ Emulate \/ NextSignalPlan \/ PostProcess

Spec == Init /\ [][Next]_vars

---------------------------------------------------------------------------
\* Single calls of the cycle arithmetic and of the two interstage-time methods,
\* on arguments and tables drawn from bounded sets

MaxCycle == 6
MaxTime == 13

FnPhaseRefs == {"A", "B", "C"}
FnStages == 1 .. 2

\* the phase lists of a stage, in phase order
FnStageLists ==
    { << >>, <<"A">>, <<"B">>, <<"C">>, <<"A", "B">>, <<"A", "C">>, <<"B", "C">>, <<"A", "B", "C">> }

FnIntergreens ==
    { [k \in FnPhaseRefs \X FnPhaseRefs |-> 5],
      [k \in FnPhaseRefs \X FnPhaseRefs |-> IF k[1] = "A" THEN 8 ELSE 3],
      [k \in FnPhaseRefs \X FnPhaseRefs |-> IF k[2] = "B" THEN 9 ELSE 2] }

FnPhaseDelays ==
    { [k \in FnStages \X FnStages \X FnPhaseRefs |-> 0],
      [k \in FnStages \X FnStages \X FnPhaseRefs |-> IF k[3] = "A" THEN 10 ELSE 0],
      [k \in FnStages \X FnStages \X FnPhaseRefs |-> IF k[3] = "C" THEN 20 ELSE 1] }

\* the overlay tables: empty, or holding corrections made in the AM period
FnOverlays ==
    { [mi |-> << >>, md |-> << >>],
      [mi |-> (<<"AM", "A", "C">> :> 1) @@ (<<"AM", "C", "A">> :> 4),
       md |-> (<<"AM", 1, 2, "A">> :> 4) @@ (<<"AM", 2, 1, "C">> :> 6)] }

\* nothing is being built or emulated
BatchIdle ==
    /\ active_stage_key = KeyUnset
    /\ m37 = << >>
    /\ plan = << >>
    /\ bargs = NoArgs
    /\ stage_sequence = << >>
    /\ stages_used = {}
    /\ item_index = 0
    /\ bpc = "idle"
    /\ returned = NoReturn
    /\ signal_plan = SignalPlan(60, << >>)
    /\ phase_timings = NoPhaseTimings
    /\ registry = << >>
    /\ pc = "idle"
    /\ index = 0
    /\ ppos = 0
    /\ unit = 1
    /\ collection = << >>
    /\ created = NotCreated
    /\ OneController

FnConfig(lists, ig, pd, ov, period) ==
    /\ phases_in_stage = lists
    /\ stream_stage_number = [k \in FnStages |-> k]
    /\ phase_attrs = [r \in FnPhaseRefs |-> Phase("END_OF_STAGE", NoPhase, NoPhase)]
    /\ intergreens = ig
    /\ phase_delays = pd
    /\ modified_intergreens = ov.mi
    /\ modified_phase_delays = ov.md
    /\ active_period_id = period

FnPlainConfig ==
    FnConfig([k \in FnStages |-> <<"A">>],
             [k \in FnPhaseRefs \X FnPhaseRefs |-> 5],
             [k \in FnStages \X FnStages \X FnPhaseRefs |-> 0],
             [mi |-> << >>, md |-> << >>], "AM")

InitFn ==
    /\ BatchIdle
    /\ result = NoResult
    /\ \/ /\ FnPlainConfig
          /\ fn = "get_stage_length_from_pulse_points"
          /\ \E cycle_time \in 1 .. MaxCycle :
                 \E pulse_point_1 \in 0 .. cycle_time - 1, pulse_point_2 \in 0 .. cycle_time - 1 :
                     args = <<pulse_point_1, pulse_point_2, cycle_time>>
       \/ /\ FnPlainConfig
          /\ fn \in {"Plan.constrain_time_to_cycle_time", "SignalPlanStream.constrain_time_to_cycle_time"}
          /\ \E time \in (0 - MaxTime) .. MaxTime, cycle_time \in 1 .. MaxCycle :
                 args = <<time, cycle_time>>
       \/ /\ \E l1 \in FnStageLists, l2 \in FnStageLists, ig \in FnIntergreens,
                 pd \in FnPhaseDelays, ov \in FnOverlays, period \in {"AM", "PM"} :
                     FnConfig([k \in FnStages |-> IF k = 1 THEN l1 ELSE l2], ig, pd, ov, period)
          /\ fn = "get_interstage_time"
          /\ \E end_stage \in FnStages, start_stage \in FnStages, modified \in BOOLEAN :
                 args = <<end_stage, start_stage, modified>>

\* everything but the record of the call
batchVars == <<geoVars, ovVars, active_period_id, active_stage_key, buildVars, emuVars, unit, postVars, twoVars,
               addVars>>

CallStageLength ==
    /\ fn = "get_stage_length_from_pulse_points"
    /\ result = NoResult
    /\ result' = <<get_stage_length_from_pulse_points(args[1], args[2], args[3])>>
    /\ UNCHANGED <<batchVars, fn, args>>

\* the static method of the class named by fn
constrain_of(name, time, cycle_time) ==
    IF name = "Plan.constrain_time_to_cycle_time"
    THEN Plan_constrain_time_to_cycle_time(time, cycle_time)
    ELSE constrain_time_to_cycle_time(time, cycle_time)

CallConstrain ==
    /\ fn \in {"Plan.constrain_time_to_cycle_time", "SignalPlanStream.constrain_time_to_cycle_time"}
    /\ result = NoResult
    /\ result' = <<constrain_of(fn, args[1], args[2])>>
    /\ UNCHANGED <<batchVars, fn, args>>

\* the value returned is constrained once more
CallConstrainAgain ==
    /\ fn \in {"Plan.constrain_time_to_cycle_time", "SignalPlanStream.constrain_time_to_cycle_time"}
    /\ Len(result) = 1
    /\ result' = Append(result, constrain_of(fn, result[1], args[2]))
    /\ UNCHANGED <<batchVars, fn, args>>

\* both methods are called on the same transition: the builder's, then the stream's
CallInterstage ==
    /\ fn = "get_interstage_time"
    /\ result = NoResult
    /\ result' = <<Plan_get_interstage_time(args[1], args[2], args[3]),
                   get_interstage_time(args[1], args[2], args[3])>>
    /\ UNCHANGED <<batchVars, fn, args>>

NextFn == CallStageLength \/ CallConstrain \/ CallConstrainAgain \/ CallInterstage

SpecFn == InitFn /\ [][NextFn]_vars

---------------------------------------------------------------------------
\* Two controllers. The overlay tables, the PhaseTimings collection, the stream cursor
\* and the loop positions belong to a controller; TimePeriods.active_period_id is one
\* setting for the whole process. The controllers are first emulated one after the
\* other, all time periods of the first and then all of the second, and then again
\* from the start with their steps interleaved in any order.

\* the state of the controller whose step runs
Controller ==
    [controller_key |-> controller_key,
     phases_in_stage |-> phases_in_stage, stream_stage_number |-> stream_stage_number,
     phase_attrs |-> phase_attrs, intergreens |-> intergreens, phase_delays |-> phase_delays,
     m37 |-> m37,
     modified_intergreens |-> modified_intergreens, modified_phase_delays |-> modified_phase_delays,
     active_stage_key |-> active_stage_key,
     signal_plan |-> signal_plan, phase_timings |-> phase_timings, registry |-> registry,
     pc |-> pc, index |-> index, ppos |-> ppos, unit |-> unit, collection |-> collection]

\* (a variant in which the overlay entries carry no controller key: a controller reads
\* the entries of the other controller where it has none of its own)
entries_of_any_controller(own, others) ==
    [k \in (DOMAIN own) \cup (DOMAIN others) |-> IF k \in DOMAIN own THEN own[k] ELSE others[k]]

\* signal_plan.py 559, 570, 584: an overlay entry carries the key of its controller, so
\* the look-ups of a controller find its own entries and no others
entries_of_controller(own, others) == own

\* the steps that follow are those of controller c
Resume(c) ==
    /\ controller_key' = c.controller_key
    /\ phases_in_stage' = c.phases_in_stage
    /\ stream_stage_number' = c.stream_stage_number
    /\ phase_attrs' = c.phase_attrs
    /\ intergreens' = c.intergreens
    /\ phase_delays' = c.phase_delays
    /\ m37' = c.m37
    /\ modified_intergreens' = entries_of_controller(c.modified_intergreens, modified_intergreens)
    /\ modified_phase_delays' = entries_of_controller(c.modified_phase_delays, modified_phase_delays)
    /\ active_stage_key' = c.active_stage_key
    /\ signal_plan' = c.signal_plan
    /\ phase_timings' = c.phase_timings
    /\ registry' = c.registry
    /\ pc' = c.pc
    /\ index' = c.index
    /\ ppos' = c.ppos
    /\ unit' = c.unit
    /\ collection' = c.collection

\* the loop over the controller's signal plans has ended
Finished(c) == c.pc = "raised" \/ (c.pc = "done" /\ c.unit = MaxUnits)

\* the controller inside an emulate call
InEmulate(c) == c.pc \notin {"start", "done", "raised"}

\* the next step is one of the other controller; one after the other, only when the
\* controller has finished
Switch ==
    /\ mode \in {"sequential", "interleaved"}
    /\ ~Finished(suspended)
    /\ mode = "sequential" => Finished(Controller)
    /\ suspended' = Controller
    /\ Resume(suspended)
    /\ UNCHANGED <<active_period_id, buildVars, fnVars, reference, mode, addVars>>

\* the overlay entries and the PhaseTiming records of a controller
Outcome(c) ==
    [modified_intergreens |-> c.modified_intergreens,
     modified_phase_delays |-> c.modified_phase_delays,
     collection |-> c.collection,
     phase_timings |-> c.phase_timings]

\* a controller before its first signal plan is emulated
Fresh(c) ==
    [c EXCEPT !.modified_intergreens = << >>, !.modified_phase_delays = << >>,
              !.active_stage_key = KeyUnset,
              !.signal_plan = [c.signal_plan EXCEPT !.time_period_id = PeriodOf(1)],
              !.phase_timings = NoPhaseTimings, !.registry = << >>,
              !.pc = "start", !.index = 0, !.ppos = 0, !.unit = 1, !.collection = << >>]

\* both controllers have been emulated one after the other: what they gave is kept and
\* they are emulated again from the start, the second controller waiting first
Interleave ==
    /\ mode = "sequential"
    /\ Finished(Controller)
    /\ Finished(suspended)
    /\ reference' = (controller_key :> Outcome(Controller)) @@
                    (suspended.controller_key :> Outcome(suspended))
    /\ mode' = "interleaved"
    /\ Resume(Fresh(suspended))
    /\ suspended' = Fresh(Controller)
    /\ active_period_id' = PeriodOf(MaxUnits)
    /\ UNCHANGED <<buildVars, fnVars, addVars>>

\* two stages with phase A and phase B in turn; the intergreen of 8 exceeds the budget 3
PairControllers ==
    { ReduceController(2, <<0, 0>>, 0, <<3, 12>>),
      ReduceController(2, <<10, 0>>, 0, <<12, 3>>),
      ReduceController(2, <<0, 0>>, 0, <<12, 12>>) }

InitPair ==
    \E c1 \in PairControllers, c2 \in PairControllers :
        /\ phases_in_stage = c1.phases_in_stage
        /\ stream_stage_number = [k \in DOMAIN c1.phases_in_stage |-> k]
        /\ phase_attrs = c1.phase_attrs
        /\ intergreens = c1.intergreens
        /\ phase_delays = c1.phase_delays
        /\ m37 = [k \in DOMAIN c1.phases_in_stage |-> NoM37]
        /\ modified_intergreens = << >>
        /\ modified_phase_delays = << >>
        /\ active_period_id = PeriodOf(MaxUnits)
        /\ active_stage_key = KeyUnset
        /\ plan = [cycle_time |-> 0, items |-> << >>]
        /\ bargs = NoArgs
        /\ stage_sequence = << >>
        /\ stages_used = {}
        /\ item_index = 0
        /\ bpc = "idle"
        /\ returned = NoReturn
        /\ signal_plan = c1.signal_plan
        /\ phase_timings = NoPhaseTimings
        /\ registry = << >>
        /\ pc = "start"
        /\ index = 0
        /\ ppos = 0
        /\ unit = 1
        /\ collection = << >>
        /\ created = NotCreated
        /\ fn = "none"
        /\ args = << >>
        /\ result = NoResult
        /\ controller_key = "J1"
        /\ suspended =
               [controller_key |-> "J2",
                phases_in_stage |-> c2.phases_in_stage,
                stream_stage_number |-> [k \in DOMAIN c2.phases_in_stage |-> k],
                phase_attrs |-> c2.phase_attrs, intergreens |-> c2.intergreens,
                phase_delays |-> c2.phase_delays,
                m37 |-> [k \in DOMAIN c2.phases_in_stage |-> NoM37],
                modified_intergreens |-> << >>, modified_phase_delays |-> << >>,
                active_stage_key |-> KeyUnset,
                signal_plan |-> c2.signal_plan, phase_timings |-> NoPhaseTimings,
                registry |-> << >>,
                pc |-> "start", index |-> 0, ppos |-> 0, unit |-> 1, collection |-> << >>]
        /\ reference = << >>
        /\ mode = "sequential"

NextPair == Emulate \/ NextSignalPlan \/ Switch \/ Interleave

SpecPair == InitPair /\ [][NextPair]_vars

---------------------------------------------------------------------------
\* Properties of the emulator

OpenTimings(p) == {i \in DOMAIN phase_timings[p] : phase_timings[p][i].end_time = NoneT}
InEveryStage(p) == \A i \in 1 .. NStages : p \in Range(phases_in_stage[signal_plan_stages[i].stage_number])
InNoStage(p) == \A i \in 1 .. NStages : p \notin Range(phases_in_stage[signal_plan_stages[i].stage_number])
HasTiming(p, start_time, end_time) ==
    \E i \in DOMAIN phase_timings[p] :
        phase_timings[p][i].start_time = start_time /\ phase_timings[p][i].end_time = end_time

\* C1: whenever the reduction pass is about to call reduce_interstage for a transition
\* with budget B, whatever the overlay holds from earlier corrections, the interstage
\* time recomputed after the pairwise corrections equals B, so the assertion holds.
C1_CorrectionConverges ==
    (pc = "reduce" /\ index <= NStages
        /\ get_interstage_time(active_stage_key, stage_at(index).stage_number, TRUE)
               > stage_at(index).interstage_length)
    => reduce_interstage(active_stage_key, stage_at(index).stage_number,
                         stage_at(index).interstage_length).assert_ok

\* C3: at every point of emulate, each phase has at most one PhaseTiming whose
\* end_time is None, whatever the termination type of the phase.
C3_AtMostOneOpenTiming ==
    \A p \in PhaseRefs : Cardinality(OpenTimings(p)) <= 1

\* C4: when emulate has finished, every PhaseTiming of the stream has both its
\* start_time and its end_time set.
C4_AllTimesSet ==
    pc = "done" =>
        \A p \in PhaseRefs : \A i \in DOMAIN phase_timings[p] :
            phase_timings[p][i].start_time # NoneT /\ phase_timings[p][i].end_time # NoneT

\* C5: after emulate, a phase of a single-stage sequence, or a phase that is in every
\* stage or in no stage of the sequence, has exactly one PhaseTiming, with start and end set.
C5_ExactlyOneTiming ==
    pc = "done" =>
        \A p \in PhaseRefs :
            ((NStages = 1 /\ p \in all_phases_used) \/ InEveryStage(p) \/ InNoStage(p))
            => /\ Len(phase_timings[p]) = 1
               /\ phase_timings[p][1].start_time # NoneT
               /\ phase_timings[p][1].end_time # NoneT

\* C6: after emulate, a phase that is in every stage of the sequence has a timing
\* (0, controller_cycle_time) and a phase of the stream that is in no stage has a timing (0, 0).
C6_AlwaysOnAlwaysOff ==
    pc = "done" =>
        \A p \in PhaseRefs :
            /\ InEveryStage(p) => HasTiming(p, 0, signal_plan.cycle_time)
            /\ InNoStage(p) => HasTiming(p, 0, 0)

\* C6 witness: emulate has finished a two-stage plan of cycle time 60 with a phase in
\* both stages and a phase in neither
C6_Witness ==
    /\ pc = "done"
    /\ NStages = 2
    /\ signal_plan.cycle_time = 60
    /\ \E p \in PhaseRefs : InEveryStage(p) /\ HasTiming(p, 0, 60)
    /\ \E p \in PhaseRefs : InNoStage(p) /\ HasTiming(p, 0, 0)

\* C7 (as stated): after an exception raised in one controller/time-period unit, the
\* batch goes on with the next unit.
C7_BatchContinues ==
    ((pc = "raised" \/ bpc = "raised") /\ unit < MaxUnits) => ENABLED (NextTimePeriod \/ NextSignalPlan)

\* C7 (amended): an exception raised in a unit ends the batch: a next unit is only
\* ever started when the unit before it has finished without an exception.
C7_ExceptionEndsBatch ==
    [][unit' # unit => (pc = "done" \/ bpc = "done")]_vars

\* C7 witness: the assertion of reduce_interstage has failed in a unit that is not the last
C7_Witness ==
    pc = "raised" /\ unit < MaxUnits /\ ~ENABLED Next

---------------------------------------------------------------------------
\* Properties of the builders

JunctionDone == bpc = "done" /\ get_stage_sequence_mode = "junction"

C8_DoubleCycling ==
    (bpc = "done" /\ get_stage_sequence_mode = "pv_px" /\ bargs.single_double_triple = 2) =>
        LET n == Len(stage_sequence)
            cycle == (bargs.stream_cycle_time * bargs.cycle_time_factor[1] * 2) \div bargs.cycle_time_factor[2]
        IN  /\ Len(returned.items) = 2 * n
            /\ \A i \in 1 .. n :
                   /\ returned.items[i] = stage_sequence[i]
                   /\ returned.items[n + i].stage = stage_sequence[i].stage
                   /\ returned.items[n + i].pulse_time
                          = (stage_sequence[i].pulse_time + bargs.stream_cycle_time) % cycle

\* C8 witness: a double-cycled sequence of two entries, one of which passes the end of
\* the controller cycle in the second copy
C8_Witness ==
    /\ bpc = "done" /\ get_stage_sequence_mode = "pv_px" /\ bargs.single_double_triple = 2
    /\ Len(stage_sequence) = 2
    /\ Len(returned.items) = 4
    /\ \E i \in 1 .. 2 : returned.items[2 + i].pulse_time < stage_sequence[i].pulse_time

\* the plan's items each force one stage of the stream, all different, at pulse times
\* that rise strictly and stay below the cycle time
ForcedDistinctRising ==
    /\ \A i \in DOMAIN plan.items :
           /\ Len(plan.items[i].f_bits) = 1 /\ plan.items[i].p_bits = << >>
           /\ key_exists_by_stream_number_and_stage_number(plan.items[i].f_bits[1])
           /\ plan.items[i].pulse_time < plan.cycle_time
    /\ \A i, j \in DOMAIN plan.items :
           i < j => /\ plan.items[i].f_bits # plan.items[j].f_bits
                    /\ plan.items[i].pulse_time < plan.items[j].pulse_time

OneEntryPerItem ==
    /\ Len(returned.items) = Len(plan.items)
    /\ \A i \in DOMAIN plan.items :
           /\ stream_stage_number[returned.items[i].stage] = plan.items[i].f_bits[1]
           /\ returned.items[i].pulse_time = plan.items[i].pulse_time

\* C9 (as stated, for a plan that has items): with no field statistics and single
\* cycling, a plan whose items each force one distinct existing stage at strictly
\* rising pulse times gives one entry per item, with the item's stage and pulse time.
C9_OneEntryPerItem ==
    (JunctionDone /\ ~m37_check /\ bargs.single_double_triple = 1
        /\ Len(plan.items) >= 1 /\ ForcedDistinctRising)
    => OneEntryPerItem

\* C9 (amended): the same for a plan of two or more such items; a plan of one such
\* item gives the single entry (the item's stage, 0).
C9_OneEntryPerItemOfTwo ==
    (JunctionDone /\ ~m37_check /\ bargs.single_double_triple = 1 /\ ForcedDistinctRising) =>
        /\ Len(plan.items) >= 2 => OneEntryPerItem
        /\ Len(plan.items) = 1 =>
               /\ Len(returned.items) = 1
               /\ stream_stage_number[returned.items[1].stage] = plan.items[1].f_bits[1]
               /\ returned.items[1].pulse_time = 0

\* C9 witness: the items [F1@0, F2@30] of a plan of cycle time 60 have given
\* [(stage 1, 0), (stage 2, 30)]
C9_Witness ==
    /\ JunctionDone /\ ~m37_check /\ bargs.single_double_triple = 1
    /\ plan.cycle_time = 60
    /\ plan.items = <<PlanSequenceItem(0, <<1>>, << >>), PlanSequenceItem(30, <<2>>, << >>)>>
    /\ returned.items = <<StageSequenceItem(1, 0, <<1, 1>>), StageSequenceItem(2, 30, <<1, 1>>)>>

\* C10: in junction mode, a built sequence of more than one entry whose first and last
\* entries have the same stage is returned without its last entry, every other built
\* sequence is returned as it is.
C10_ClosingEntryDropped ==
    JunctionDone =>
        LET n == Len(stage_sequence)
        IN  IF n > 1 /\ stage_sequence[1].stage = stage_sequence[n].stage
            THEN returned.items = [i \in 1 .. (n - 1) |-> stage_sequence[i]]
            ELSE returned.items = stage_sequence

\* C10 witness: a built sequence of three entries that ends on the stage it starts
\* with has been returned as its first two entries
C10_Witness ==
    /\ JunctionDone
    /\ Len(stage_sequence) = 3
    /\ stage_sequence[1].stage = stage_sequence[3].stage
    /\ returned.items = <<stage_sequence[1], stage_sequence[2]>>

---------------------------------------------------------------------------
\* Properties of the cycle arithmetic and of the interstage time

\* C12: get_stage_length_from_pulse_points(a, b, c) returns (b - a + c) mod c: for pulse
\* times a, b in [0, c) and c > 0 the result is in [0, c), is 0 when a = b, and is
\* c - 1 for (0, c - 1, c).
C12_StageLength ==
    (fn = "get_stage_length_from_pulse_points" /\ result # NoResult) =>
        LET a == args[1]
            b == args[2]
            c == args[3]
            stage_length == result[1]
        IN  /\ stage_length \in 0 .. c - 1
            /\ \E k \in {0, 1} : stage_length + k * c = b - a + c
            /\ a = b => stage_length = 0
            /\ (a = 0 /\ b = c - 1) => stage_length = c - 1

\* C12 witness: the call for a wrapped pair (second pulse before the first) has returned
C12_Witness ==
    /\ fn = "get_stage_length_from_pulse_points"
    /\ args = <<4, 1, 5>>
    /\ result = <<2>>

\* C13: constrain_time_to_cycle_time(t, c) is in [0, c) for every integer t, negative
\* ones included, and c > 0; constraining the returned value again returns it unchanged.
C13_ConstrainIdempotent ==
    (fn \in {"Plan.constrain_time_to_cycle_time", "SignalPlanStream.constrain_time_to_cycle_time"}) =>
        /\ \A i \in DOMAIN result : result[i] \in 0 .. args[2] - 1
        /\ Len(result) = 2 => result[2] = result[1]

\* C13 witness: a negative time has been constrained twice
C13_Witness ==
    /\ fn = "Plan.constrain_time_to_cycle_time"
    /\ args = <<0 - 7, 5>>
    /\ result = <<3, 3>>

SetMax(S) == CHOOSE x \in S : \A y \in S : y <= x

\* the times of the (end_phase, start_phase) pairs spanning the two stages
PairTimes(end_stage, start_stage, modified) ==
    LET ending == Range(phases_in_stage[end_stage]) \ Range(phases_in_stage[start_stage])
        starting == Range(phases_in_stage[start_stage]) \ Range(phases_in_stage[end_stage])
    IN  { Max2(get_delay_time_by_stage_and_phase_keys(end_stage, start_stage, pair[1], modified)
                   + get_intergreen_time_by_phase_keys(pair[1], pair[2], modified),
               get_delay_time_by_stage_and_phase_keys(end_stage, start_stage, pair[2], modified))
          : pair \in ending \X starting }

\* C15: the interstage time of a transition is the maximum over the (end_phase,
\* start_phase) pairs spanning the two stages of max(end_phase_delay + intergreen,
\* start_phase_delay), and 0 when there is no pair; Plan.get_interstage_time and
\* SignalPlanStream.get_interstage_time return the same value.
C15_InterstageTime ==
    (fn = "get_interstage_time" /\ result # NoResult) =>
        LET times == PairTimes(args[1], args[2], args[3])
        IN  /\ result[1] = result[2]
            /\ result[2] = IF times = {} THEN 0 ELSE SetMax(times)

\* C15 witness: both methods have returned 20 for the transition from stage (A) to
\* stage (B, C), where the delay of the second starting phase decides
C15_Witness ==
    /\ fn = "get_interstage_time"
    /\ args = <<1, 2, TRUE>>
    /\ phases_in_stage[1] = <<"A">>
    /\ phases_in_stage[2] = <<"B", "C">>
    /\ result = <<20, 20>>
    /\ PairTimes(1, 2, TRUE) = {11, 20} \/ PairTimes(1, 2, TRUE) = {10, 20}

---------------------------------------------------------------------------
\* Properties of the interstage corrector within emulate

\* x is num / den rounded to the nearest integer, a tie going to the even one
IsRounded(x, num, den) ==
    LET twice_error == IF 2 * x * den >= 2 * num THEN 2 * x * den - 2 * num ELSE 2 * num - 2 * x * den
    IN  /\ twice_error <= den
        /\ twice_error = den => x % 2 = 0

\* the entry under key is written with value
Recorded(table_before, table_after, key, value) ==
    key \in DOMAIN table_after /\ table_after[key] = value

\* the entry under key is left as it was
NotRecorded(table_before, table_after, key) ==
    /\ key \in DOMAIN table_after <=> key \in DOMAIN table_before
    /\ key \in DOMAIN table_before => table_after[key] = table_before[key]

\* the reduction pass is about to correct the transition into the stage at index
CorrectionDue ==
    /\ pc = "reduce"
    /\ index <= NStages
    /\ get_interstage_time(active_stage_key, stage_at(index).stage_number, TRUE)
           > stage_at(index).interstage_length

\* C16: in reduce_interstage with budget B, for each (end_phase, start_phase) pair whose
\* original delay d plus original intergreen g exceeds B the candidates are
\* d' = round(d * B / (d + g)) and g' = B - d'; g' is written to the intergreen overlay
\* only if smaller than the current modified intergreen, d' to the delay overlay only if
\* smaller than the current modified delay. With d = 10, g = 8, B = 12 and no earlier
\* entries 7 and 5 are written and the recomputed interstage time is 12.
C16_CandidatesRecorded ==
    [][CorrectionDue =>
        LET end_stage_key == active_stage_key
            start_stage_key == stage_at(index).stage_number
            B == stage_at(index).interstage_length
        IN  \A end_phase \in Range(get_end_phases(end_stage_key, start_stage_key)),
               start_phase \in Range(get_start_phases(end_stage_key, start_stage_key)) :
                LET d == phase_delays[<<end_stage_key, start_stage_key, end_phase>>]
                    g == intergreens[<<end_phase, start_phase>>]
                    d_key == <<active_period_id, end_stage_key, start_stage_key, end_phase>>
                    g_key == <<active_period_id, end_phase, start_phase>>
                    d_mod == IF d_key \in DOMAIN modified_phase_delays THEN modified_phase_delays[d_key] ELSE d
                    g_mod == IF g_key \in DOMAIN modified_intergreens THEN modified_intergreens[g_key] ELSE g
                    d_new == CHOOSE x \in 0 .. d + g : IsRounded(x, d * B, d + g)
                    g_new == B - d_new
                IN  d + g > B =>
                        /\ IF g_new < g_mod
                           THEN Recorded(modified_intergreens, modified_intergreens', g_key, g_new)
                           ELSE NotRecorded(modified_intergreens, modified_intergreens', g_key)
                        /\ IF d_new < d_mod
                           THEN Recorded(modified_phase_delays, modified_phase_delays', d_key, d_new)
                           ELSE NotRecorded(modified_phase_delays, modified_phase_delays', d_key)
                        /\ (d = 10 /\ g = 8 /\ B = 12 /\ d_mod = d /\ g_mod = g) =>
                               /\ modified_phase_delays'[d_key] = 7
                               /\ modified_intergreens'[g_key] = 5
                               /\ interstage_time_in(modified_intergreens', modified_phase_delays',
                                                     end_stage_key, start_stage_key, TRUE) = 12
    ]_vars

\* C16 witness: the transition from stage 1 to stage 2 with d = 10, g = 8 and B = 12 has
\* been corrected: 7 and 5 are in the overlays and the reduction pass has moved on
C16_Witness ==
    /\ pc = "reduce"
    /\ index > 1
    /\ NStages >= 2
    /\ phase_delays[<<1, 2, "A">>] = 10
    /\ intergreens[<<"A", "B">>] = 8
    /\ signal_plan_stages[2].interstage_length = 12
    /\ <<active_period_id, 1, 2, "A">> \in DOMAIN modified_phase_delays
    /\ modified_phase_delays[<<active_period_id, 1, 2, "A">>] = 7
    /\ <<active_period_id, "A", "B">> \in DOMAIN modified_intergreens
    /\ modified_intergreens[<<active_period_id, "A", "B">>] = 5

TimingStates == {"timing_end", "timing_start", "always_on", "always_off"}

\* the stage left by the transition into the stage at idx
stage_before(idx) == IF idx = 0 THEN signal_plan_stages[NStages].stage_number
                     ELSE stage_at(idx - 1).stage_number

\* C17: within one emulate run every overlay write of the interstage corrector happens
\* in the reduction pass, before the timing pass has created or updated any PhaseTiming,
\* and the overlay stays as it is during the timing pass: every transition is timed
\* with the final corrected values, which fit its budget.
C17_CorrectionsPrecedeTimings ==
    [][/\ (modified_intergreens' # modified_intergreens \/ modified_phase_delays' # modified_phase_delays)
           => /\ pc = "reduce"
              /\ NStages > 1 => phase_timings = NoPhaseTimings
       /\ pc \in TimingStates
           => /\ UNCHANGED ovVars
              /\ pc' # "reduce"
              /\ \A idx \in 0 .. NStages :
                     get_interstage_time(stage_before(idx), stage_at(idx).stage_number, TRUE)
                         <= stage_at(idx).interstage_length
    ]_vars

\* C17 witness: the timing pass is recording times of a plan whose transitions were
\* corrected in the reduction pass
C17_Witness ==
    /\ pc = "timing_start"
    /\ index >= 1
    /\ modified_intergreens # << >>
    /\ modified_phase_delays # << >>
    /\ \E p \in PhaseRefs : phase_timings[p] # << >>
    /\ \E idx \in 0 .. NStages :
           interstage_time_in(<< >>, << >>, stage_before(idx), stage_at(idx).stage_number, TRUE)
               > stage_at(idx).interstage_length

---------------------------------------------------------------------------
\* Properties of the timing pass

\* the offset of an end phase of the current transition: its modified phase delay
end_offset(end_phase) ==
    get_delay_time_by_stage_and_phase_keys(active_stage_key, stage_at(index).stage_number, end_phase, TRUE)

\* the offset of a start phase of the current transition: the largest time any end
\* phase of the transition imposes on it
start_offset(start_phase) ==
    LET times == { Max2(end_offset(end_phase)
                            + get_intergreen_time_by_phase_keys(end_phase, start_phase, TRUE),
                        get_delay_time_by_stage_and_phase_keys(active_stage_key, stage_at(index).stage_number,
                                                               start_phase, TRUE))
                   : end_phase \in Range(cur_end_phases) }
    IN  IF times = {} THEN 0 ELSE SetMax(times)

EndOfStagePhases == {p \in Range(cur_end_phases) : phase_attrs[p].termination_type = "END_OF_STAGE"}

IntergreensRespected ==
    \A end_phase \in EndOfStagePhases, start_phase \in Range(cur_start_phases) :
        start_offset(start_phase) - end_offset(end_phase)
            >= get_intergreen_time_by_phase_keys(end_phase, start_phase, TRUE)

LastTiming(timings, p) == timings[p][Len(timings[p])]

\* C18: in the timing pass, for every pair of an END_OF_STAGE end phase E and a start
\* phase S of a transition, start_offset(S) - end_offset(E) is at least the modified
\* intergreen of (E, S); the end time recorded for E and the start time recorded for S
\* are the offsets added to the pulse point of the target stage, modulo the cycle time.
C18_OffsetsRespectIntergreens ==
    [][/\ (pc = "timing_end" /\ index # 0 /\ ppos < Len(cur_end_phases))
           => /\ IntergreensRespected
              /\ cur_end_phases[ppos + 1] \in EndOfStagePhases
                 => LastTiming(phase_timings', cur_end_phases[ppos + 1]).end_time
                        = (stage_at(index).pulse_point + end_offset(cur_end_phases[ppos + 1]))
                              % signal_plan.cycle_time
       /\ (pc = "timing_start" /\ index # NStages /\ ppos < Len(cur_start_phases))
           => /\ IntergreensRespected
              /\ LastTiming(phase_timings', cur_start_phases[ppos + 1]).start_time
                     = (stage_at(index).pulse_point + start_offset(cur_start_phases[ppos + 1]))
                           % signal_plan.cycle_time
    ]_vars

\* C18 witness: in a transition with a corrected delay and intergreen, the end phase has
\* its end time and the start phase its start time, later by the intergreen or more
C18_Witness ==
    /\ pc = "timing_start"
    /\ index \in 1 .. NStages - 1
    /\ ppos = 1
    /\ Len(cur_start_phases) = 1
    /\ Len(cur_end_phases) = 1
    /\ cur_end_phases[1] \in EndOfStagePhases
    /\ end_offset(cur_end_phases[1]) = 7
    /\ get_intergreen_time_by_phase_keys(cur_end_phases[1], cur_start_phases[1], TRUE) = 5
    /\ start_offset(cur_start_phases[1]) = 12
    /\ phase_timings[cur_end_phases[1]] # << >>
    /\ LastTiming(phase_timings, cur_end_phases[1]).end_time = stage_at(index).pulse_point + 7
    /\ LastTiming(phase_timings, cur_start_phases[1]).start_time = stage_at(index).pulse_point + 12

---------------------------------------------------------------------------
\* Properties of the returned pulse times and of the candidate stage

\* C19: every StageSequenceItem returned by the junction and PV/PX builders has its
\* pulse_time in [0, C), C being the controller cycle time: stream cycle time x
\* cycle_time_factor x single_double_triple.
C19_PulseTimesWithinCycle ==
    bpc = "done" =>
        \A i \in DOMAIN returned.items :
            /\ returned.items[i].pulse_time >= 0
            /\ returned.items[i].pulse_time * bargs.cycle_time_factor[2]
                   < bargs.stream_cycle_time * bargs.cycle_time_factor[1] * bargs.single_double_triple

SetMin(S) == CHOOSE x \in S : \A y \in S : x <= y

\* the stages an item may move the stream to: the stages of the stream it refers to,
\* with field statistics when the stream has any
EligibleStages(item) ==
    {k \in DOMAIN stream_stage_number :
        /\ \E i \in DOMAIN stage_numbers(item) : stage_numbers(item)[i] = stream_stage_number[k]
        /\ m37[k] # NoM37 \/ m37_stages = {}}

\* the candidate stage of an item under the cursor
CandidateStage(item, cursor) ==
    LET eligible == EligibleStages(item)
        after == {k \in eligible : k > cursor}
    IN  IF \E i \in DOMAIN stage_numbers(item) : stage_numbers(item)[i] = stream_stage_number[cursor]
        THEN cursor
        ELSE IF after # {} THEN SetMin(after)
        ELSE IF eligible # {} THEN SetMin(eligible)
        ELSE cursor

\* C20: in junction mode the candidate stage of a plan sequence item is the active stage
\* when its stream stage number is among the item's stage_numbers, else the first stage
\* in ascending stage-number order, starting cyclically just after the active stage,
\* among the stages the item refers to that exist in the stream and have field
\* statistics (any of them when the stream has no field statistics); an entry appended
\* for the item is on the candidate stage and moves the cursor there; when no stage
\* qualifies or the candidate is the active stage, no entry is appended and the cursor
\* stays.
C20_CandidateStage ==
    [][(bpc = "loop" /\ get_stage_sequence_mode = "junction" /\ bpc' = "loop")
        => LET item == plan.items[(item_index % Len(plan.items)) + 1]
               candidate == CandidateStage(item, active_stage_key)
           IN  /\ candidate = active_stage_key
                   => UNCHANGED <<stage_sequence, active_stage_key>>
               /\ stage_sequence' # stage_sequence
                   => /\ stage_sequence' = Append(stage_sequence, stage_sequence'[Len(stage_sequence')])
                      /\ stage_sequence'[Len(stage_sequence')].stage = candidate
                      /\ active_stage_key' = candidate
               /\ stage_sequence' = stage_sequence => UNCHANGED active_stage_key
    ]_vars

\* C20 witness: with field statistics for stages 1 and 2 only, an item naming stages 1
\* and 3 has moved the stream from stage 2 to stage 1: stage 3, next after 2, was passed
\* over and the search wrapped round
C20_Witness ==
    /\ bpc = "loop"
    /\ get_stage_sequence_mode = "junction"
    /\ item_index >= 1
    /\ plan.items[((item_index - 1) % Len(plan.items)) + 1].f_bits = <<1, 3>>
    /\ m37[1] # NoM37 /\ m37[2] # NoM37 /\ m37[3] = NoM37
    /\ Len(stage_sequence) >= 2
    /\ stage_sequence[Len(stage_sequence) - 1].stage = 2
    /\ stage_sequence[Len(stage_sequence)].stage = 1
    /\ active_stage_key = 1

\* ---------------------------------------------------------------------------
\* Merging of the second greens (emulator.py 370-394)

\* the records with index > 0 that the signal plan emulated last registered
RemovedKeys == {k \in DOMAIN registry : k[3] = signal_plan.time_period_id /\ k[2] > 0}
removed_record(k) == phase_timings[k[1]][registry[k]]

\* C11: after generate_phase_timings completes, no PhaseTiming with index > 0 remains
\* in the phase_timings collection, and for every removed record with index > 0 (here:
\* those of the signal plan emulated last) the index-0 record of the same phase and time
\* period carries that record's start_time as second_start_time and its end_time as
\* second_end_time.
C11_SecondGreensMerged ==
    pc = "completed" =>
        /\ \A k \in DOMAIN collection : k[2] = 0
        /\ \A k \in RemovedKeys :
               /\ collection[key_of_index_0(k)].second_start_time = removed_record(k).start_time
               /\ collection[key_of_index_0(k)].second_end_time = removed_record(k).end_time

\* ---------------------------------------------------------------------------
\* Two controllers interleaved

Controllers == {Controller, suspended}
BothFinished == mode = "interleaved" /\ \A c \in Controllers : Finished(c)
SameAsSequential == \A c \in Controllers : Outcome(c) = reference[c.controller_key]

\* a controller is inside an emulate call while the active-period id is another time
\* period than that of its signal plan
ForeignPeriod ==
    /\ mode = "interleaved"
    /\ \E c \in Controllers : InEmulate(c) /\ active_period_id # c.signal_plan.time_period_id

junction_stream_cycle_time ==
    IF bargs.stream_cycle_time = NoneT THEN plan.cycle_time ELSE bargs.stream_cycle_time
junction_controller_cycle_time ==
    (junction_stream_cycle_time * bargs.cycle_time_factor[1] * bargs.single_double_triple)
        \div bargs.cycle_time_factor[2]

\* the junction loop has appended an entry for the item it was at
JunctionAppends ==
    /\ bpc = "loop" /\ get_stage_sequence_mode = "junction"
    /\ item_index < Len(plan.items) * bargs.single_double_triple
    /\ Len(stage_sequence') = Len(stage_sequence) + 1
CurrentItem == plan.items[(item_index % Len(plan.items)) + 1]
LastEntry(seq) == seq[Len(seq)]
NoBits(item) == item.f_bits = << >> /\ item.p_bits = << >>

\* C21: in junction mode, when field statistics exist for the stream and there is a
\* previous entry, the new entry's pulse time is (previous pulse_time + round(previous
\* stage's recorded total_time x cycle_time_factor)) mod the controller cycle time, with
\* no 2-unit pad added, whatever bits the item has.
C21_FieldStatisticsAdvance ==
    [][(JunctionAppends /\ m37_check /\ stage_sequence # << >>) =>
          LET previous == LastEntry(stage_sequence)
          IN  LastEntry(stage_sequence').pulse_time =
                  (previous.pulse_time
                   + RoundHalfEven(m37[previous.stage].total_time * bargs.cycle_time_factor[1],
                                   bargs.cycle_time_factor[2])) % junction_controller_cycle_time
    ]_vars

\* C22: in junction mode without field statistics, the advance from the previous
\* entry's pulse time to a new entry's pulse time, before padding and final reduction,
\* is (item pulse - previous pulse + cycle) mod cycle of the plan, for every pair of
\* pulse times, equal ones and previous pulse times in the second cycle of a
\* double-cycled stream included; Plan.get_stage_length_from_pulse_times gives the same.
C22_RawPlanDelta ==
    [][(JunctionAppends /\ ~m37_check /\ stage_sequence # << >>) =>
          LET previous == LastEntry(stage_sequence)
              advance == (CurrentItem.pulse_time - previous.pulse_time + plan.cycle_time) % plan.cycle_time
          IN  /\ green_time_from(previous.pulse_time, CurrentItem.pulse_time, plan.cycle_time) = advance
              /\ get_stage_length_from_pulse_times(previous.pulse_time, CurrentItem.pulse_time,
                                                   plan.cycle_time) = advance
    ]_vars

\* ---------------------------------------------------------------------------
\* The pedestrian builder

PedestrianMode == get_stage_sequence_mode = "pedestrian"
ExactlyF(bit) == {i \in DOMAIN plan.items : plan.items[i].f_bits = <<bit>>}
StreamStage(n) == CHOOSE k \in DOMAIN stream_stage_number : stream_stage_number[k] = n

\* C23: get_stage_sequence_pedestrian raises when the plan has no item whose f_bits are
\* exactly [F2] or none whose f_bits are exactly [F1], and only then; otherwise it starts
\* from stream stage 1 as active stage and returns at most two entries: stream stage 2 at
\* the F2 item's pulse time, then stream stage 1.
C23_PedestrianSequence ==
    PedestrianMode =>
        /\ bpc = "raised" => (ExactlyF(2) = {} \/ ExactlyF(1) = {})
        /\ bpc \in {"loop", "done"} => (ExactlyF(2) # {} /\ ExactlyF(1) # {})
        /\ (bpc = "loop" /\ item_index = 0) => active_stage_key = StreamStage(1)
        /\ bpc = "done" =>
               /\ returned.kind = "DefaultList"
               /\ Len(returned.items) <= 2
               /\ Len(returned.items) >= 1 =>
                      /\ returned.items[1].stage = StreamStage(2)
                      /\ \E i \in ExactlyF(2) : returned.items[1].pulse_time = plan.items[i].pulse_time
               /\ Len(returned.items) = 2 => returned.items[2].stage = StreamStage(1)

\* C23 witness: the plan [F1@10, F2@55] has given stage 2 at 55, then stage 1
C23_Witness ==
    /\ PedestrianMode /\ bpc = "done"
    /\ plan.items = <<PlanSequenceItem(10, <<1>>, << >>), PlanSequenceItem(55, <<2>>, << >>)>>
    /\ Len(returned.items) = 2
    /\ returned.items[1].stage = 2 /\ returned.items[1].pulse_time = 55
    /\ returned.items[2].stage = 1

\* ---------------------------------------------------------------------------
\* The overlap normalisation of generate_phase_timings
\* ---------------------------------------------------------------------------

has_second_interval(r) == r.second_start_time # NoneT /\ r.second_end_time # NoneT

FixOverlapsCompletes == pc = "merged" /\ pc' = "completed"

\* C24: the normalisation step swaps end_time and second_end_time of exactly
\* the records that have a second interval overlapping the first one, whatever
\* the second interval's times are (a time of 0 included), and leaves every
\* other record as it was.
C24_OverlappingRecordsSwapped ==
    [][FixOverlapsCompletes =>
          \A k \in DOMAIN collection :
              collection'[k] =
                  IF has_second_interval(collection[k]) /\ timings_overlap(collection[k])
                  THEN swap_end_times(collection[k])
                  ELSE collection[k]
    ]_vars

\* ---------------------------------------------------------------------------
\* The junction builder and the cursor it finds on entry
\* ---------------------------------------------------------------------------

\* the loop of get_stage_sequence_junction from item i on, as one value:
\* acc = [raised, cursor, stage_sequence, stages_used]
RECURSIVE junction_items_from(_, _)
junction_items_from(i, acc) ==
    IF acc.raised \/ i >= Len(plan.items) * bargs.single_double_triple THEN acc
    ELSE LET plan_sequence_item == plan.items[(i % Len(plan.items)) + 1]
             previous_stage_sequence_item == default_list_get(acc.stage_sequence, -1)
             r == process_plan_sequence_item(plan_sequence_item, previous_stage_sequence_item,
                                             m37_check, acc.cursor)
         IN  junction_items_from(i + 1,
                 IF r.kind = "raise" THEN [acc EXCEPT !.raised = TRUE]
                 ELSE IF r.kind = "item" /\ may_append(r.item, previous_stage_sequence_item, acc.stages_used)
                 THEN [raised |-> FALSE, cursor |-> r.item.stage,
                       stage_sequence |-> Append(acc.stage_sequence, r.item),
                       stages_used |-> acc.stages_used \cup {r.item.stage}]
                 ELSE acc)

\* get_stage_sequence_junction called with the stream's cursor at the given value:
\* what it returns, or NoReturn when it raises
get_stage_sequence_junction(cursor) ==
    LET first == get_initial_stage_id(cursor)
        looped == junction_items_from(0, [raised |-> FALSE, cursor |-> first.initial_stage_id,
                                          stage_sequence |-> << >>, stages_used |-> {}])
        last == get_initial_stage_id(looped.cursor)
        built == with_fallback(looped.stage_sequence, last.initial_stage_id)
    IN  IF first.error \/ looped.raised THEN NoReturn
        ELSE IF Len(looped.stage_sequence) = 0 /\ last.error THEN NoReturn
        ELSE IF m37_check /\ \E i \in DOMAIN built : built[i].stage = NoneT THEN NoReturn
        ELSE drop_closing_entry(built)

\* the (stage, pulse_time) pairs of a returned sequence
stage_pulse_pairs(seq) == [i \in DOMAIN seq |-> <<seq[i].stage, seq[i].pulse_time>>]

\* the values the cursor can hold on entry: unset, or any stage of the stream
IncomingCursors == {KeyUnset} \cup DOMAIN phases_in_stage

\* C25: the sequence the junction builder returns is the same whatever stage
\* the stream's cursor was left on before the call: a call that returns,
\* started from any other cursor over the same plan, field statistics and
\* parameters, returns the same (stage, pulse_time) pairs.
C25_CursorIndependent ==
    JunctionDone =>
        \A cursor \in IncomingCursors :
            get_stage_sequence_junction(cursor) # NoReturn =>
                stage_pulse_pairs(get_stage_sequence_junction(cursor).items) = stage_pulse_pairs(returned.items)

\* the builder's steps and the builder taken as one call agree on the first
\* time period, which starts from an unset cursor
JunctionCallAgrees ==
    (JunctionDone /\ unit = 1) => returned = get_stage_sequence_junction(KeyUnset)

\* ---------------------------------------------------------------------------
\* Stages used within the cycle
\* ---------------------------------------------------------------------------

PairwiseDistinctStages(seq) == \A i, j \in DOMAIN seq : i # j => seq[i].stage # seq[j].stage

\* C26: under single cycling the junction builder appends no stage twice, so the
\* entries of the sequence it built and of the sequence it returns have pairwise
\* distinct stages, and the closing entry is dropped for multi-cycled streams only.
C26_StagesUsedOnce ==
    (JunctionDone /\ bargs.single_double_triple = 1) =>
        /\ PairwiseDistinctStages(stage_sequence)
        /\ PairwiseDistinctStages(returned.items)
        /\ returned.items = stage_sequence

\* a single-cycled plan from which two entries were built, a later item
\* leading back to the stage of the first entry
C26_Witness ==
    /\ JunctionDone /\ bargs.single_double_triple = 1
    /\ plan \in RevisitPlans
    /\ Len(returned.items) = 2
    /\ stages_used = {returned.items[1].stage, returned.items[2].stage}
    /\ \E i \in DOMAIN plan.items :
           LET r == process_plan_sequence_item(plan.items[i], returned.items[2], m37_check, active_stage_key)
           IN  r.kind = "item" /\ r.item.stage = returned.items[1].stage

\* ---------------------------------------------------------------------------
\* The overlay tables under reduce_interstage
\* ---------------------------------------------------------------------------

\* the modified value under a key of an overlay table, the original one when the
\* key has no entry
modified_intergreen(mi, k) == IF k \in DOMAIN mi THEN mi[k] ELSE intergreens[<<k[2], k[3]>>]
modified_delay(md, k) == IF k \in DOMAIN md THEN md[k] ELSE phase_delays[<<k[2], k[3], k[4]>>]

\* no entry of the tables after is larger than the modified value before
NoIncrease(before, after) ==
    /\ DOMAIN before.mi \subseteq DOMAIN after.mi
    /\ DOMAIN before.md \subseteq DOMAIN after.md
    /\ \A k \in DOMAIN after.mi : after.mi[k] <= modified_intergreen(before.mi, k)
    /\ \A k \in DOMAIN after.md : after.md[k] <= modified_delay(before.md, k)

\* every iteration of the loop of reduce_interstage, from (j, i) on, leaves tables
\* with no increase over the tables it found
RECURSIVE writes_never_increase_from(_, _, _, _, _, _)
writes_never_increase_from(ov, end_stage_key, start_stage_key, interstage_time, j, i) ==
    LET end_phases == get_end_phases(end_stage_key, start_stage_key)
        start_phases == get_start_phases(end_stage_key, start_stage_key)
    IN  IF j > Len(start_phases) THEN TRUE
        ELSE IF i > Len(end_phases)
        THEN writes_never_increase_from(ov, end_stage_key, start_stage_key, interstage_time, j + 1, 1)
        ELSE LET after == reduce_pair(ov, end_stage_key, start_stage_key, end_phases[i], start_phases[j],
                                      interstage_time)
             IN  /\ NoIncrease(ov, after)
                 /\ writes_never_increase_from(after, end_stage_key, start_stage_key, interstage_time, j, i + 1)

Overlay == [mi |-> modified_intergreens, md |-> modified_phase_delays]

\* the reduction pass stands before a stage pair
BeforeReduceStep == pc = "reduce" /\ index <= NStages

\* C27: the overlay never holds a value above the original one, and no write of
\* reduce_interstage, called on the stage pair at hand with the tables as they
\* are, stores a value above the modified value its key had before.
C27_OverlayNeverIncreases ==
    /\ \A k \in DOMAIN modified_intergreens : modified_intergreens[k] <= intergreens[<<k[2], k[3]>>]
    /\ \A k \in DOMAIN modified_phase_delays : modified_phase_delays[k] <= phase_delays[<<k[2], k[3], k[4]>>]
    /\ BeforeReduceStep =>
           writes_never_increase_from(Overlay, active_stage_key, stage_at(index).stage_number,
                                      stage_at(index).interstage_length, 1, 1)

\* a call of reduce_interstage that lowers an entry an earlier call wrote
C27_Witness ==
    /\ BeforeReduceStep
    /\ LET r == reduce_interstage(active_stage_key, stage_at(index).stage_number,
                                  stage_at(index).interstage_length)
       IN  \/ \E k \in DOMAIN modified_intergreens : r.mi[k] < modified_intergreens[k]
           \/ \E k \in DOMAIN modified_phase_delays : r.md[k] < modified_phase_delays[k]

\* ---------------------------------------------------------------------------
\* The transitions of the timing pass
\* ---------------------------------------------------------------------------

TimingPass == pc \in {"timing_end", "timing_start"}

\* the transition iteration idx of the timing pass is about, as positions in
\* signal_plan_stages: from the last stage to the first on iteration 0 and again
\* on iteration n, from stage idx to stage idx + 1 in between
transition_from(idx) == IF idx = 0 THEN NStages ELSE idx
transition_to(idx) == IF idx = NStages THEN 1 ELSE idx + 1

transition_end_phases(idx) ==
    get_end_phases(signal_plan_stages[transition_from(idx)].stage_number,
                   signal_plan_stages[transition_to(idx)].stage_number)
transition_start_phases(idx) ==
    get_start_phases(signal_plan_stages[transition_from(idx)].stage_number,
                     signal_plan_stages[transition_to(idx)].stage_number)

\* a step of the pass that processes an end phase, a start phase
EndPhaseStep == pc = "timing_end" /\ pc' = "timing_end" /\ ppos' = ppos + 1
StartPhaseStep == pc = "timing_start" /\ pc' = "timing_start" /\ ppos' = ppos + 1

\* C29: in the timing pass over two or more entries the iterations 0 .. n run
\* once each, in order, with the cursor on the stage the iteration's transition
\* leaves; end phases are processed on the iterations 1 .. n only and start
\* phases on the iterations 0 .. n - 1 only, each phase of the transition once,
\* in order and all of them. So the transition from the last stage to the first
\* gets its start phases on iteration 0 and its end phases on iteration n, and
\* every other transition gets both on its one iteration.
C29_TransitionsProcessedOnce ==
    [][(TimingPass /\ NStages >= 2) =>
          /\ index \in 0 .. NStages
          /\ active_stage_key = signal_plan_stages[transition_from(index)].stage_number
          /\ EndPhaseStep =>
                 /\ index \in 1 .. NStages
                 /\ ppos < Len(transition_end_phases(index))
                 /\ index' = index
          /\ StartPhaseStep =>
                 /\ index \in 0 .. (NStages - 1)
                 /\ ppos < Len(transition_start_phases(index))
                 /\ index' = index
          /\ (pc = "timing_end" /\ pc' = "timing_start") =>
                 /\ ppos = IF index = 0 THEN 0 ELSE Len(transition_end_phases(index))
                 /\ ppos' = 0
                 /\ index' = index
          /\ (pc = "timing_start" /\ pc' # "timing_start") =>
                 /\ ppos = IF index = NStages THEN 0 ELSE Len(transition_start_phases(index))
                 /\ ppos' = 0
                 /\ index' = index + 1
                 /\ pc' = IF index = NStages THEN "always_on" ELSE "timing_end"
          /\ (phase_timings' # phase_timings \/ registry' # registry) => (EndPhaseStep \/ StartPhaseStep)
    ]_vars

\* the pass over three stages is over, and the transition from the last stage
\* to the first has end phases and start phases
C29_Witness ==
    /\ pc = "always_on"
    /\ NStages >= 3
    /\ index = NStages + 1
    /\ transition_end_phases(0) # << >>
    /\ transition_start_phases(0) # << >>
    /\ \A p \in Range(transition_start_phases(0)) : Len(phase_timings[p]) >= 1

\* ---------------------------------------------------------------------------
\* The SignalPlanStages made from a returned stage sequence
\* ---------------------------------------------------------------------------

\* add_from_stream_plan_dict has gone through the returned sequence, or raised
StagesAttempted == bpc = "done" /\ created.status # "none"

\* C30: for every stage sequence a builder returns, add_from_stream_plan_dict
\* completes without an exception and makes one SignalPlanStage per entry, in
\* the entries' order, with the entry's pulse time as pulse_point and the
\* sequence numbers 0 .. n - 1.
C30_OneStagePerEntry ==
    StagesAttempted =>
        /\ created.status = "added"
        /\ Len(created.stages) = Len(returned.items)
        /\ \A i \in DOMAIN created.stages :
               /\ created.stages[i].stage_number = returned.items[i].stage
               /\ created.stages[i].pulse_point = returned.items[i].pulse_time
               /\ created.stages[i].signal_plan_sequence_number = i - 1

\* ---------------------------------------------------------------------------
\* The stage lengths of a stream's SignalPlanStages
\* ---------------------------------------------------------------------------

RECURSIVE sum_of_total_lengths(_)
sum_of_total_lengths(stages) ==
    IF stages = << >> THEN 0
    ELSE stages[1].total_length + sum_of_total_lengths(Tail(stages))

StagesAdded == bpc = "done" /\ created.status = "added"

\* C28: the total_length values of the SignalPlanStages made from a sequence
\* of two or more entries add up to the controller cycle time.
C28_LengthsTileTheCycle ==
    (StagesAdded /\ Len(returned.items) >= 2) =>
        sum_of_total_lengths(created.stages) = controller_cycle_time

\* the pulse point of a stage within the controller cycle
point_in_cycle(stage) == stage.pulse_point % controller_cycle_time

\* the stages that are followed, the last one by the first, by a stage of smaller
\* pulse point in the cycle: the times the sequence passes the end of the cycle
cycle_ends_passed(stages) ==
    Cardinality({i \in DOMAIN stages :
                    point_in_cycle(stages[IF i = Len(stages) THEN 1 ELSE i + 1]) < point_in_cycle(stages[i])})

\* C28 (amended): the total_length values add up to the controller cycle time
\* once for every time the sequence of pulse points passes the end of the cycle;
\* so they add up to the controller cycle time exactly when the pulse points go
\* round the cycle once.
C28_LengthsTileTheCyclePassed ==
    (StagesAdded /\ Len(returned.items) >= 2) =>
        sum_of_total_lengths(created.stages) = controller_cycle_time * cycle_ends_passed(created.stages)

\* three stages or more made from pulse points that go round the cycle once
C28_Witness ==
    /\ StagesAdded
    /\ Len(created.stages) >= 3
    /\ cycle_ends_passed(created.stages) = 1
    /\ sum_of_total_lengths(created.stages) = controller_cycle_time

=============================================================================
